---- MODULE Spec2Model ----
(***************************************************************************)
(* Model of the conversation filter engine (filter.ts), of the filter      *)
(* configuration resolution (filter-config.ts) and of their callers.       *)
(*                                                                         *)
(* JavaScript values are modelled as follows.                              *)
(*   - a JS string is a TLA+ string (Len, \o and SubSeq act on characters) *)
(*   - a JS value of statically unknown type is a one-field record whose   *)
(*     field names its type: [str |-> "ab"], [num |-> 3], [arr |-> <<>>],  *)
(*     [obj |-> [k |-> v]]                                                 *)
(*   - a JS object is a record; an optional property that is not set is    *)
(*     absent from the record's DOMAIN                                     *)
(*   - a JS array is a sequence                                            *)
(***************************************************************************)
EXTENDS Integers, Sequences, FiniteSets, TLC

(***************************************************************************)
(* Bounds of the model.                                                    *)
(***************************************************************************)
MaxEntries == 3

MaxPayloadEntries == 1

MaxOverrides == 2

(***************************************************************************)
(* JavaScript primitives used by the source.                               *)
(***************************************************************************)
NULL == "null"

Has(r, f) == f \in DOMAIN r

\* property read of an optional boolean property used as a condition
Flag(r, f) == Has(r, f) /\ r[f]

IsStr(v) == Has(v, "str")

IsArr(v) == Has(v, "arr")

IsNum(v) == Has(v, "num")

\* JS truthiness of a tagged value
Truthy(v) ==
  IF IsStr(v) THEN v.str # ""
  ELSE IF IsNum(v) THEN v.num # 0
  ELSE IF Has(v, "bool") THEN v.bool
  ELSE IF Has(v, "null") THEN FALSE
  ELSE TRUE

CharAt(s, i) == SubSeq(s, i, i)

\* String.prototype.substring(0, n) for n >= 0
Substring0(s, n) == IF n >= Len(s) THEN s ELSE SubSeq(s, 1, n)

\* s.substring(from - 1): the suffix of s that starts at 1-based index from
SuffixFrom(s, from) == IF from > Len(s) THEN "" ELSE SubSeq(s, from, Len(s))

StartsWithAt(s, p, i) ==
  /\ i + Len(p) - 1 <= Len(s)
  /\ SubSeq(s, i, i + Len(p) - 1) = p

\* 1-based index of the first occurrence of p in s at or after from; 0 if none
IndexOfFrom(s, p, from) ==
  LET cands == {i \in from..(Len(s) - Len(p) + 1) : StartsWithAt(s, p, i)}
  IN IF cands = {} THEN 0 ELSE CHOOSE i \in cands : \A j \in cands : i <= j

\* String.prototype.includes
Includes(s, p) == IndexOfFrom(s, p, 1) # 0

\* Array.prototype.includes on a sequence
SeqIncludes(seq, x) == \E i \in 1..Len(seq) : seq[i] = x

IsWhitespace(c) == c \in {" ", "\n", "\t"}

\* String.prototype.trim
Trim(s) ==
  LET keep == {i \in 1..Len(s) : ~IsWhitespace(CharAt(s, i))}
  IN IF keep = {} THEN ""
     ELSE LET lo == CHOOSE i \in keep : \A j \in keep : i <= j
              hi == CHOOSE i \in keep : \A j \in keep : i >= j
          IN SubSeq(s, lo, hi)

\* s.replace(/open[\s\S]*?close/g, ''): leftmost match, lazy body, global
RECURSIVE ReplaceBlocks(_, _, _)
ReplaceBlocks(s, open, close) ==
  LET i == IndexOfFrom(s, open, 1)
      j == IF i = 0 THEN 0 ELSE IndexOfFrom(s, close, i + Len(open))
  IN IF i = 0 \/ j = 0 THEN s
     ELSE SubSeq(s, 1, i - 1)
            \o ReplaceBlocks(SuffixFrom(s, j + Len(close)), open, close)

\* s.replace(new RegExp(lit, 'g'), '') for a pattern without metacharacters
RECURSIVE ReplaceLiteral(_, _)
ReplaceLiteral(s, lit) ==
  LET i == IF lit = "" THEN 0 ELSE IndexOfFrom(s, lit, 1)
  IN IF i = 0 THEN s
     ELSE SubSeq(s, 1, i - 1) \o ReplaceLiteral(SuffixFrom(s, i + Len(lit)), lit)

(***************************************************************************)
(* filter-config.ts: tool categories.                                      *)
(***************************************************************************)
TOOL_CATEGORIES ==
  [Edit |-> "file_edit", MultiEdit |-> "file_edit", Write |-> "file_edit",
   NotebookEdit |-> "file_edit",
   Read |-> "file_read", Glob |-> "file_read", Grep |-> "file_read",
   LS |-> "file_read",
   Bash |-> "execution", mcp__ide__executeCode |-> "execution",
   WebSearch |-> "web", WebFetch |-> "web",
   Task |-> "analysis",
   ExitPlanMode |-> "project", TodoWrite |-> "project",
   mcp__ide__getDiagnostics |-> "mcp"]

(***************************************************************************)
(* filter.ts: content rewriting (second pass).                             *)
(***************************************************************************)
TRUNCATION_MARKER == "...[truncated]"

UNDEFINED == "undefined"

\* a content item that is the JSON value null
IsNull(v) == Has(v, "null")

\* item.type of a content item that is not null: undefined when the item is
\* not an object or has no such property
ItemType(item) == IF Has(item, "type") THEN item.type ELSE UNDEFINED

removeThinkingBlocks(processed, config) ==
  IF ~config.content.excludeThinking THEN processed
  ELSE ReplaceBlocks(
         ReplaceBlocks(processed, "<anythingllm:thinking>",
                       "</anythingllm:thinking>"),
         "<thinking>", "</thinking>")

removeSystemReminders(processed, config) ==
  IF ~config.content.excludeSystemReminders THEN processed
  ELSE ReplaceBlocks(processed, "<system-reminder>", "</system-reminder>")

\* new RegExp(pattern, 'g') throws a SyntaxError for these patterns; every
\* other pattern of the model is free of metacharacters and matches itself
RegExpThrows(pattern) == pattern \in {"(", "[", "*", "+", "?", ")", "\\"}

RECURSIVE ApplyPatternsFrom(_, _, _)
ApplyPatternsFrom(result, patterns, k) ==
  IF k > Len(patterns) THEN result
  ELSE ApplyPatternsFrom(
         IF RegExpThrows(patterns[k]) THEN result
         ELSE ReplaceLiteral(result, patterns[k]),
         patterns, k + 1)

applyCustomPatterns(processed, config) ==
  IF ~Has(config.content, "customPatterns") THEN processed
  ELSE ApplyPatternsFrom(processed, config.content.customPatterns, 1)

\* mutant: a string of exactly maxLength characters is truncated too
truncateIfNeeded_OffByOne(processed, config) ==
  IF \/ ~Has(config.messages, "maxLength")
     \/ config.messages.maxLength = 0
     \/ Len(processed) < config.messages.maxLength
  THEN processed
  ELSE Substring0(processed, config.messages.maxLength) \o TRUNCATION_MARKER

truncateIfNeeded(processed, config) ==
  IF \/ ~Has(config.messages, "maxLength")
     \/ config.messages.maxLength = 0
     \/ Len(processed) <= config.messages.maxLength
  THEN processed
  ELSE Substring0(processed, config.messages.maxLength) \o TRUNCATION_MARKER

processString(str, config) ==
  Trim(truncateIfNeeded(
         applyCustomPatterns(
           removeSystemReminders(
             removeThinkingBlocks(str, config), config), config), config))

processContentItem(item, config) ==
  IF Has(item, "text") /\ item.text # ""
  THEN [item EXCEPT !.text = processString(item.text, config)]
  ELSE IF ItemType(item) = "tool_use" /\ Has(item, "input")
  THEN [item EXCEPT !.input =
          [key \in DOMAIN item.input |->
             IF IsStr(item.input[key])
             THEN [str |-> processString(item.input[key].str, config)]
             ELSE item.input[key]]]
  ELSE IF ItemType(item) = "tool_result" /\ Has(item, "content")
          /\ IsStr(item.content)
  THEN [item EXCEPT !.content = [str |-> processString(item.content.str, config)]]
  ELSE item

\* mutant: a text item whose text is empty is dropped
shouldKeepContentItem_DropsEmptyText(item, config) ==
  IF ~Flag(config.messages, "excludeEmpty") THEN TRUE
  ELSE IF Has(item, "text") THEN Len(item.text) > 0
  ELSE TRUE

shouldKeepContentItem(item, config) ==
  IF ~Flag(config.messages, "excludeEmpty") THEN TRUE
  ELSE IF Has(item, "text") /\ item.text # "" THEN Len(item.text) > 0
  ELSE TRUE

\* mutant: the items whose text is empty are filtered out
processArrayContent_DropsEmptyText(content, config) ==
  SelectSeq([i \in 1..Len(content) |-> processContentItem(content[i], config)],
            LAMBDA item : \/ ~Flag(config.messages, "excludeEmpty")
                          \/ ~Has(item, "text")
                          \/ item.text # "")

processArrayContent(content, config) ==
  SelectSeq([i \in 1..Len(content) |-> processContentItem(content[i], config)],
            LAMBDA item : shouldKeepContentItem(item, config))

filterContentPatterns(content, config) ==
  IF IsStr(content)
  THEN IF content.str = "" THEN content
       ELSE [str |-> processString(content.str, config)]
  ELSE IF IsArr(content)
  THEN [arr |-> processArrayContent(content.arr, config)]
  ELSE content

(***************************************************************************)
(* filter.ts: classification predicates.                                   *)
(***************************************************************************)
\* mutant: only the first content item is inspected
isToolCall_FirstItemOnly(entry, toolName) ==
  IF entry.type # "assistant" THEN FALSE
  ELSE LET content == entry.message.content
       IN IF IsArr(content) /\ Len(content.arr) > 0
          THEN LET item == content.arr[1]
               IN /\ ItemType(item) = "tool_use"
                  /\ IF toolName # UNDEFINED /\ toolName # ""
                     THEN Has(item, "name") /\ item.name = toolName
                     ELSE TRUE
          ELSE FALSE

\* isToolCall(entry) is isToolCall(entry, UNDEFINED)
isToolCall(entry, toolName) ==
  IF entry.type # "assistant" THEN FALSE
  ELSE LET content == entry.message.content
       IN IF IsArr(content)
          THEN \E i \in 1..Len(content.arr) :
                 LET item == content.arr[i]
                 IN /\ ItemType(item) = "tool_use"
                    /\ IF toolName # UNDEFINED /\ toolName # ""
                       THEN Has(item, "name") /\ item.name = toolName
                       ELSE TRUE
          ELSE FALSE

getToolName(entry) ==
  IF entry.type # "assistant" THEN NULL
  ELSE LET content == entry.message.content
       IN IF IsArr(content)
          THEN LET named == {i \in 1..Len(content.arr) :
                               /\ ItemType(content.arr[i]) = "tool_use"
                               /\ Has(content.arr[i], "name")
                               /\ content.arr[i].name # ""}
               IN IF named = {} THEN NULL
                  ELSE content.arr[CHOOSE i \in named :
                                     \A j \in named : i <= j].name
          ELSE NULL

isToolResult(entry) ==
  IF entry.type # "user" THEN FALSE
  ELSE LET content == entry.message.content
       IN IF IsArr(content)
          THEN \E i \in 1..Len(content.arr) :
                 ItemType(content.arr[i]) = "tool_result"
          ELSE FALSE

\* mutant: only the failure flag is looked at
isFailedToolResult_FlagOnly(entry) ==
  IF ~isToolResult(entry) THEN FALSE
  ELSE LET content == entry.message.content
       IN IF IsArr(content)
          THEN \E i \in 1..Len(content.arr) :
                 LET item == content.arr[i]
                 IN /\ ItemType(item) = "tool_result"
                    /\ Has(item, "is_error") /\ item.is_error = TRUE
          ELSE FALSE

isFailedToolResult(entry) ==
  IF ~isToolResult(entry) THEN FALSE
  ELSE LET content == entry.message.content
       IN IF IsArr(content)
          THEN \E i \in 1..Len(content.arr) :
                 LET item == content.arr[i]
                 IN /\ ItemType(item) = "tool_result"
                    /\ LET hasErrorFlag ==
                             Has(item, "is_error") /\ item.is_error = TRUE
                           hasErrorContent ==
                             /\ Has(item, "content")
                             /\ IsStr(item.content)
                             /\ Includes(item.content.str, "[Request interrupted")
                       IN hasErrorFlag \/ hasErrorContent
          ELSE FALSE

isSubAgentCall(entry) == isToolCall(entry, "Task")

isSubAgentResponse(entry) ==
  IF entry.type # "user" THEN FALSE
  ELSE IF Has(entry, "toolUseResult") /\ Truthy(entry.toolUseResult)
  THEN LET result == entry.toolUseResult
       IN IF ~Has(result, "obj") THEN FALSE
          ELSE /\ Has(result.obj, "totalDurationMs")
               /\ Truthy(result.obj.totalDurationMs)
               /\ Has(result.obj, "totalTokens")
               /\ Truthy(result.obj.totalTokens)
               /\ Has(result.obj, "totalToolUseCount")
               /\ IsNum(result.obj.totalToolUseCount)
  ELSE FALSE

shouldFilterTool(toolName, config) ==
  IF /\ Has(config.tools, "excludeSpecific")
     /\ SeqIncludes(config.tools.excludeSpecific, toolName)
  THEN TRUE
  ELSE IF /\ Has(config.tools, "excludeCategories")
          /\ Len(config.tools.excludeCategories) > 0
  THEN /\ toolName \in DOMAIN TOOL_CATEGORIES
       /\ SeqIncludes(config.tools.excludeCategories, TOOL_CATEGORIES[toolName])
  ELSE FALSE

(***************************************************************************)
(* filter.ts: first pass.  st is the pair of locals of filterConversation: *)
(* toolCallMap (uuid -> toolName) and filteredUuids.                       *)
(***************************************************************************)
MapSet(map, key, value) ==
  [k \in DOMAIN map \cup {key} |-> IF k = key THEN value ELSE map[k]]

processSubAgentFiltering(entry, filterConfig, st) ==
  LET afterCalls ==
        IF filterConfig.subAgents.excludeCalls /\ isSubAgentCall(entry)
        THEN st.filteredUuids \cup {entry.uuid}
        ELSE st.filteredUuids
      afterResponses ==
        IF filterConfig.subAgents.excludeResponses /\ isSubAgentResponse(entry)
        THEN afterCalls \cup {entry.uuid}
        ELSE afterCalls
  IN [st EXCEPT !.filteredUuids = afterResponses]

\* mutant: the call of an excluded tool is marked whatever excludeResultsOnly
processToolCallFiltering_NoResultsOnly(entry, filterConfig, st) ==
  IF ~isToolCall(entry, UNDEFINED) THEN st
  ELSE LET toolName == getToolName(entry)
       IN IF toolName = NULL THEN st
          ELSE [toolCallMap |-> MapSet(st.toolCallMap, entry.uuid, toolName),
                filteredUuids |->
                  IF shouldFilterTool(toolName, filterConfig)
                  THEN st.filteredUuids \cup {entry.uuid}
                  ELSE st.filteredUuids]

processToolCallFiltering(entry, filterConfig, st) ==
  IF ~isToolCall(entry, UNDEFINED) THEN st
  ELSE LET toolName == getToolName(entry)
       IN IF toolName = NULL THEN st
          ELSE [toolCallMap |-> MapSet(st.toolCallMap, entry.uuid, toolName),
                filteredUuids |->
                  IF /\ shouldFilterTool(toolName, filterConfig)
                     /\ ~Flag(filterConfig.tools, "excludeResultsOnly")
                  THEN st.filteredUuids \cup {entry.uuid}
                  ELSE st.filteredUuids]

\* mutant: the result of an excluded tool is marked whatever excludeCallsOnly
processToolResultFiltering_NoCallsOnly(entry, entries, index, filterConfig, st) ==
  IF ~isToolResult(entry) THEN st
  ELSE LET afterPair ==
             IF /\ index - 1 >= 1
                /\ entries[index - 1].uuid \in DOMAIN st.toolCallMap
             THEN LET toolName == st.toolCallMap[entries[index - 1].uuid]
                  IN IF /\ toolName # ""
                        /\ shouldFilterTool(toolName, filterConfig)
                     THEN st.filteredUuids \cup {entry.uuid}
                     ELSE st.filteredUuids
             ELSE st.filteredUuids
           afterFailed ==
             IF /\ Flag(filterConfig.tools, "excludeFailed")
                /\ isFailedToolResult(entry)
             THEN afterPair \cup {entry.uuid}
             ELSE afterPair
       IN [st EXCEPT !.filteredUuids = afterFailed]

processToolResultFiltering(entry, entries, index, filterConfig, st) ==
  IF ~isToolResult(entry) THEN st
  ELSE LET afterPair ==
             IF /\ index - 1 >= 1
                /\ entries[index - 1].uuid \in DOMAIN st.toolCallMap
             THEN LET toolName == st.toolCallMap[entries[index - 1].uuid]
                  IN IF /\ toolName # ""
                        /\ shouldFilterTool(toolName, filterConfig)
                        /\ ~Flag(filterConfig.tools, "excludeCallsOnly")
                     THEN st.filteredUuids \cup {entry.uuid}
                     ELSE st.filteredUuids
             ELSE st.filteredUuids
           afterFailed ==
             IF /\ Flag(filterConfig.tools, "excludeFailed")
                /\ isFailedToolResult(entry)
             THEN afterPair \cup {entry.uuid}
             ELSE afterPair
       IN [st EXCEPT !.filteredUuids = afterFailed]

processRoleFiltering(entry, filterConfig, st) ==
  IF /\ Has(filterConfig.messages, "excludeByRole")
     /\ SeqIncludes(filterConfig.messages.excludeByRole, entry.type)
  THEN [st EXCEPT !.filteredUuids = st.filteredUuids \cup {entry.uuid}]
  ELSE st

\* the body of the first-pass loop of filterConversation, from index on
RECURSIVE FirstPass(_, _, _, _)
FirstPass(entries, filterConfig, index, st) ==
  IF index > Len(entries) THEN st
  ELSE LET entry == entries[index]
           s1 == processSubAgentFiltering(entry, filterConfig, st)
           s2 == processToolCallFiltering(entry, filterConfig, s1)
           s3 == processToolResultFiltering(entry, entries, index,
                                            filterConfig, s2)
           s4 == processRoleFiltering(entry, filterConfig, s3)
       IN FirstPass(entries, filterConfig, index + 1, s4)

\* the uuids marked by the first pass
FilteredUuids(entries, filterConfig) ==
  FirstPass(entries, filterConfig, 1,
            [toolCallMap |-> <<>>, filteredUuids |-> {}]).filteredUuids

(***************************************************************************)
(* filter.ts: filterConversation.                                          *)
(***************************************************************************)
\* content.some(callback) and for (const item of content), whose callback
\* reads item.type: the TypeError is thrown at a null item that is reached
\* before an item for which the callback returns true; matches holds the
\* positions of those items
ThrowsBefore(arr, matches) ==
  \E i \in 1..Len(arr) :
    /\ IsNull(arr[i])
    /\ \A j \in 1..(i - 1) : j \notin matches

\* the first pass throws at this entry: isSubAgentCall, isToolCall,
\* getToolName, isToolResult or isFailedToolResult reads a property of null
FirstPassRaises(entry, filterConfig) ==
  LET content == entry.message.content
      At(i) == content.arr[i]
      Positions == 1..Len(content.arr)
  IN /\ IsArr(content)
     /\ \/ /\ entry.type = "assistant"
           /\ \/ /\ filterConfig.subAgents.excludeCalls
                 /\ ThrowsBefore(content.arr,
                       {i \in Positions : /\ ItemType(At(i)) = "tool_use"
                                          /\ Has(At(i), "name")
                                          /\ At(i).name = "Task"})
              \/ ThrowsBefore(content.arr,
                    {i \in Positions : ItemType(At(i)) = "tool_use"})
              \/ ThrowsBefore(content.arr,
                    {i \in Positions : /\ ItemType(At(i)) = "tool_use"
                                       /\ Has(At(i), "name")
                                       /\ At(i).name # ""})
        \/ /\ entry.type = "user"
           /\ \/ ThrowsBefore(content.arr,
                    {i \in Positions : ItemType(At(i)) = "tool_result"})
              \/ /\ Flag(filterConfig.tools, "excludeFailed")
                 /\ ThrowsBefore(content.arr,
                       {i \in Positions :
                          /\ ItemType(At(i)) = "tool_result"
                          /\ \/ Has(At(i), "is_error") /\ At(i).is_error = TRUE
                             \/ /\ Has(At(i), "content")
                                /\ IsStr(At(i).content)
                                /\ Includes(At(i).content.str,
                                            "[Request interrupted")})

\* processContentItem reads item.text of a null item of a surviving entry
SecondPassRaises(entry) ==
  /\ IsArr(entry.message.content)
  /\ \E i \in 1..Len(entry.message.content.arr) :
       IsNull(entry.message.content.arr[i])

\* mutant: the rewritten entry is built from the fields of the type and the
\* tool outcome is left out
RewriteEntry_DropsToolOutcome(entry, filterConfig) ==
  LET filteredContent == filterContentPatterns(entry.message.content,
                                               filterConfig)
  IN IF /\ Flag(filterConfig.messages, "excludeEmpty")
        /\ \/ IsStr(filteredContent) /\ filteredContent.str = ""
           \/ IsArr(filteredContent) /\ Len(filteredContent.arr) = 0
     THEN <<>>
     ELSE <<[uuid |-> entry.uuid, parentUuid |-> entry.parentUuid,
             timestamp |-> entry.timestamp, type |-> entry.type,
             message |-> [entry.message EXCEPT !.content = filteredContent]]>>

\* the callback of .map in the second pass followed by the filter of nulls:
\* <<>> for null, a one-element sequence for a rewritten entry
RewriteEntry(entry, filterConfig) ==
  LET filteredContent == filterContentPatterns(entry.message.content,
                                               filterConfig)
  IN IF /\ Flag(filterConfig.messages, "excludeEmpty")
        /\ \/ IsStr(filteredContent) /\ filteredContent.str = ""
           \/ IsArr(filteredContent) /\ Len(filteredContent.arr) = 0
     THEN <<>>
     ELSE <<[entry EXCEPT !.message.content = filteredContent]>>

RECURSIVE Flatten(_)
Flatten(seqs) ==
  IF seqs = <<>> THEN <<>> ELSE Head(seqs) \o Flatten(Tail(seqs))

\* mutant: the survivors are returned most recent first
filterConversation_Reversed(entries, filterConfig) ==
  LET filteredUuids == FilteredUuids(entries, filterConfig)
      kept == SelectSeq(entries, LAMBDA entry : entry.uuid \notin filteredUuids)
      out == Flatten([i \in 1..Len(kept) |-> RewriteEntry(kept[i], filterConfig)])
  IN [i \in 1..Len(out) |-> out[Len(out) + 1 - i]]

\* filterConversation(entries, filterConfig) throws a TypeError instead of
\* returning; filterConversation below is its value when it returns
filterConversationRaises(list, filterConfig) ==
  \/ \E i \in 1..Len(list) : FirstPassRaises(list[i], filterConfig)
  \/ \E i \in 1..Len(list) :
       /\ list[i].uuid \notin FilteredUuids(list, filterConfig)
       /\ SecondPassRaises(list[i])

filterConversation(entries, filterConfig) ==
  LET filteredUuids == FilteredUuids(entries, filterConfig)
      kept == SelectSeq(entries, LAMBDA entry : entry.uuid \notin filteredUuids)
  IN Flatten([i \in 1..Len(kept) |-> RewriteEntry(kept[i], filterConfig)])

(***************************************************************************)
(* filter-config.ts: presets and resolution from process.env.              *)
(* env is process.env: a function from the names of the variables that are *)
(* set to their string values.                                             *)
(***************************************************************************)
FILTER_PRESETS ==
  [none |->
     [content |-> [excludeThinking |-> FALSE, excludeSystemReminders |-> FALSE,
                   excludeErrors |-> FALSE],
      subAgents |-> [excludeCalls |-> FALSE, excludeResponses |-> FALSE],
      tools |-> [excludeCategories |-> <<>>, excludeSpecific |-> <<>>,
                 excludeFailed |-> FALSE],
      messages |-> [excludeEmpty |-> FALSE],
      advanced |-> [preserveContext |-> TRUE, compactMode |-> FALSE]],
   light |->
     [content |-> [excludeThinking |-> TRUE, excludeSystemReminders |-> FALSE,
                   excludeErrors |-> FALSE],
      subAgents |-> [excludeCalls |-> FALSE, excludeResponses |-> FALSE],
      tools |-> [excludeCategories |-> <<>>, excludeSpecific |-> <<>>,
                 excludeFailed |-> FALSE],
      messages |-> [excludeEmpty |-> FALSE],
      advanced |-> [preserveContext |-> TRUE, compactMode |-> FALSE]],
   heavy |->
     [content |-> [excludeThinking |-> TRUE, excludeSystemReminders |-> FALSE,
                   excludeErrors |-> FALSE],
      subAgents |-> [excludeCalls |-> TRUE, excludeResponses |-> TRUE],
      tools |-> [excludeCategories |-> <<>>, excludeSpecific |-> <<>>,
                 excludeFailed |-> FALSE],
      messages |-> [excludeEmpty |-> FALSE],
      advanced |-> [preserveContext |-> TRUE, compactMode |-> FALSE]]]

\* process.env.NAME used as a condition: set and not the empty string
EnvTruthy(env, name) == Has(env, name) /\ env[name] # ""

getEnvBoolean(env, name, defaultValue) ==
  IF ~Has(env, name) THEN defaultValue ELSE env[name] = "true"

\* String.prototype.split(',')
RECURSIVE Split(_)
Split(s) ==
  LET i == IndexOfFrom(s, ",", 1)
  IN IF i = 0 THEN <<s>>
     ELSE <<SubSeq(s, 1, i - 1)>> \o Split(SuffixFrom(s, i + 1))

DigitValue(c) ==
  CASE c = "0" -> 0 [] c = "1" -> 1 [] c = "2" -> 2 [] c = "3" -> 3
    [] c = "4" -> 4 [] c = "5" -> 5 [] c = "6" -> 6 [] c = "7" -> 7
    [] c = "8" -> 8 [] c = "9" -> 9

\* Number.parseInt(s, 10) of a string of decimal digits
RECURSIVE ParseDigits(_, _)
ParseDigits(s, acc) ==
  IF s = "" THEN acc
  ELSE ParseDigits(Tail(s), 10 * acc + DigitValue(Head(s)))

parseInt(s) == ParseDigits(s, 0)

\* adds property name with the value of process.env.NAME split at commas,
\* or with the preset's list; the property stays undefined without either
WithList(rec, name, env, envName, presetAxis) ==
  IF Has(env, envName) THEN [k \in DOMAIN rec \cup {name} |->
                              IF k = name THEN Split(env[envName]) ELSE rec[k]]
  ELSE IF Has(presetAxis, name) THEN [k \in DOMAIN rec \cup {name} |->
                              IF k = name THEN presetAxis[name] ELSE rec[k]]
  ELSE rec

buildContentConfig(preset, env) ==
  WithList(
    [excludeThinking |->
       IF EnvTruthy(env, "SUBAGENT_EXCLUDE_THINKING")
       THEN env["SUBAGENT_EXCLUDE_THINKING"] # "false"
       ELSE preset.content.excludeThinking,
     excludeSystemReminders |->
       getEnvBoolean(env, "SUBAGENT_EXCLUDE_SYSTEM_REMINDERS",
                     preset.content.excludeSystemReminders),
     excludeErrors |->
       getEnvBoolean(env, "SUBAGENT_EXCLUDE_ERRORS",
                     preset.content.excludeErrors)],
    "customPatterns", env, "SUBAGENT_CUSTOM_PATTERNS", <<>>)

\* mutant: excludeResponses is read from the variable of excludeCalls
buildSubAgentsConfig_WrongVariable(preset, env) ==
  [excludeCalls |->
     IF EnvTruthy(env, "SUBAGENT_EXCLUDE_SUBAGENT_CALLS")
     THEN env["SUBAGENT_EXCLUDE_SUBAGENT_CALLS"] # "false"
     ELSE preset.subAgents.excludeCalls,
   excludeResponses |->
     IF EnvTruthy(env, "SUBAGENT_EXCLUDE_SUBAGENT_CALLS")
     THEN env["SUBAGENT_EXCLUDE_SUBAGENT_CALLS"] # "false"
     ELSE preset.subAgents.excludeResponses]

buildSubAgentsConfig(preset, env) ==
  [excludeCalls |->
     IF EnvTruthy(env, "SUBAGENT_EXCLUDE_SUBAGENT_CALLS")
     THEN env["SUBAGENT_EXCLUDE_SUBAGENT_CALLS"] # "false"
     ELSE preset.subAgents.excludeCalls,
   excludeResponses |->
     IF EnvTruthy(env, "SUBAGENT_EXCLUDE_SUBAGENT_RESPONSES")
     THEN env["SUBAGENT_EXCLUDE_SUBAGENT_RESPONSES"] # "false"
     ELSE preset.subAgents.excludeResponses]

buildToolsConfig(preset, env) ==
  WithList(
    WithList(
      [excludeCallsOnly |->
         IF EnvTruthy(env, "SUBAGENT_EXCLUDE_TOOL_CALLS_ONLY")
         THEN env["SUBAGENT_EXCLUDE_TOOL_CALLS_ONLY"] = "true"
         ELSE FALSE,
       excludeResultsOnly |->
         IF EnvTruthy(env, "SUBAGENT_EXCLUDE_TOOL_RESULTS_ONLY")
         THEN env["SUBAGENT_EXCLUDE_TOOL_RESULTS_ONLY"] = "true"
         ELSE FALSE,
       excludeFailed |->
         getEnvBoolean(env, "SUBAGENT_EXCLUDE_FAILED_TOOLS",
                       IF Has(preset.tools, "excludeFailed")
                       THEN preset.tools.excludeFailed ELSE FALSE)],
      "excludeCategories", env, "SUBAGENT_EXCLUDE_TOOL_CATEGORIES",
      preset.tools),
    "excludeSpecific", env, "SUBAGENT_EXCLUDE_TOOLS", preset.tools)

buildMessagesConfig(preset, env) ==
  LET base ==
        WithList(
          [excludeEmpty |->
             getEnvBoolean(env, "SUBAGENT_EXCLUDE_EMPTY",
                           IF Has(preset.messages, "excludeEmpty")
                           THEN preset.messages.excludeEmpty ELSE FALSE)],
          "excludeByRole", env, "SUBAGENT_EXCLUDE_ROLES", preset.messages)
  IN IF EnvTruthy(env, "SUBAGENT_MAX_MESSAGE_LENGTH")
     THEN [k \in DOMAIN base \cup {"maxLength"} |->
             IF k = "maxLength"
             THEN parseInt(env["SUBAGENT_MAX_MESSAGE_LENGTH"])
             ELSE base[k]]
     ELSE base

\* property names every object literal inherits from Object.prototype
OBJECT_PROTOTYPE_KEYS ==
  {"constructor", "toString", "toLocaleString", "valueOf", "hasOwnProperty",
   "isPrototypeOf", "propertyIsEnumerable", "__proto__"}

\* the outcome of a call that throws
TypeError == [threw |-> "TypeError"]

Threw(outcome) == Has(outcome, "threw")

\* FILTER_PRESETS[selectedPreset] || FILTER_PRESETS.heavy: an own key gives
\* its preset, an inherited key gives a truthy value that has no .content,
\* any other key gives undefined and so the heavy preset
getFilterConfig(presetName, env) ==
  LET selectedPreset ==
        IF presetName = UNDEFINED \/ presetName = "" THEN "heavy"
        ELSE presetName
  IN IF selectedPreset \in OBJECT_PROTOTYPE_KEYS THEN TypeError
     ELSE LET preset ==
                IF selectedPreset \in DOMAIN FILTER_PRESETS
                THEN FILTER_PRESETS[selectedPreset]
                ELSE FILTER_PRESETS.heavy
          IN [content |-> buildContentConfig(preset, env),
              subAgents |-> buildSubAgentsConfig(preset, env),
              tools |-> buildToolsConfig(preset, env),
              messages |-> buildMessagesConfig(preset, env),
              advanced |->
                [preserveContext |->
                   IF EnvTruthy(env, "SUBAGENT_PRESERVE_CONTEXT")
                   THEN env["SUBAGENT_PRESERVE_CONTEXT"] # "false"
                   ELSE preset.advanced.preserveContext,
                 compactMode |->
                   getEnvBoolean(env, "SUBAGENT_COMPACT_MODE",
                                 preset.advanced.compactMode)]]

getFilterConfigFromEnv(env) == getFilterConfig(UNDEFINED, env)

(***************************************************************************)
(* The state: a transcript under construction (entries), process.env, the  *)
(* preset name and the configuration handed to the engine, the list        *)
(* returned by filterConversation (filtered) and the list returned by      *)
(* filtering that list again with the same configuration (refiltered).     *)
(* For the callers of the engine: the list a selection function returned   *)
(* (selected), the index handed to getUpToUserMessage (userMessageIndex),   *)
(* the document a tool returned (document), the global                     *)
(* ConversationCache (cache), what the file system answers to the tools    *)
(* (fileSystem) and the record getFilterStatistics returned (stats).       *)
(***************************************************************************)
VARIABLES entries, env, presetArg, config, filtered, refiltered, pc,
          selected, userMessageIndex, document, cache, fileSystem, stats,
          lru, tree

vars == <<entries, env, presetArg, config, filtered, refiltered, pc,
          selected, userMessageIndex, document, cache, fileSystem, stats,
               lru, tree>>

UUIDS == <<"1", "2", "3", "4", "5", "6", "7", "8", "9">>

\* the entry the parser yields for the index-th line: the template's type,
\* message and toolUseResult, chained to the previous line
MkEntry(template, index) ==
  [k \in DOMAIN template \cup {"uuid", "parentUuid", "timestamp"} |->
     IF k = "uuid" THEN UUIDS[index]
     ELSE IF k = "parentUuid" THEN (IF index = 1 THEN NULL ELSE UUIDS[index - 1])
     ELSE IF k = "timestamp" THEN "2024-01-01T00:00:0" \o UUIDS[index] \o "Z"
     ELSE template[k]]

UserMsg(content) == [type |-> "user", message |-> [role |-> "user", content |-> content]]

AssistantMsg(content) ==
  [type |-> "assistant", message |-> [role |-> "assistant", content |-> content]]

WithToolUseResult(template, value) ==
  [k \in DOMAIN template \cup {"toolUseResult"} |->
     IF k = "toolUseResult" THEN value ELSE template[k]]

ToolUse(id, name, input) ==
  [type |-> "tool_use", id |-> id, name |-> name, input |-> input]

ToolResult(id, content) ==
  [type |-> "tool_result", tool_use_id |-> id, content |-> content]

FailedToolResult(id, content) ==
  [type |-> "tool_result", tool_use_id |-> id, content |-> content,
   is_error |-> TRUE]

Text(text) == [type |-> "text", text |-> text]

(***************************************************************************)
(* Transcript lines of the tool-pairing specification (Spec).              *)
(***************************************************************************)
EntryPool ==
  << UserMsg([str |-> "hi"]),
     AssistantMsg([str |-> "ok"]),
     AssistantMsg([arr |-> <<ToolUse("t1", "Edit", [file_path |-> [str |-> "a.ts"]])>>]),
     AssistantMsg([arr |-> <<ToolUse("t1", "Read", [file_path |-> [str |-> "a.ts"]]),
                             ToolUse("t2", "Edit", [file_path |-> [str |-> "a.ts"]])>>]),
     AssistantMsg([arr |-> <<Text("go"),
                             ToolUse("t3", "Task", [prompt |-> [str |-> "find"]])>>]),
     UserMsg([arr |-> <<ToolResult("t1", [str |-> "done"])>>]),
     UserMsg([arr |-> <<FailedToolResult("t2", [str |-> "[Request interrupted by user]"])>>]) >>

\* the tools axis of the configurations of Spec
ToolsAxis(exclusion, callsOnly, resultsOnly, failed) ==
  LET flags == [excludeCallsOnly |-> callsOnly, excludeResultsOnly |-> resultsOnly,
                excludeFailed |-> failed]
  IN CASE exclusion = 1 -> flags
       [] exclusion = 2 ->
            [k \in DOMAIN flags \cup {"excludeSpecific"} |->
               IF k = "excludeSpecific" THEN <<"Edit">> ELSE flags[k]]
       [] exclusion = 3 ->
            [k \in DOMAIN flags \cup {"excludeCategories"} |->
               IF k = "excludeCategories" THEN <<"file_edit">> ELSE flags[k]]
       [] exclusion = 4 ->
            [k \in DOMAIN flags \cup {"excludeSpecific"} |->
               IF k = "excludeSpecific" THEN <<"Read", "Edit">> ELSE flags[k]]

ToolConfig(exclusion, callsOnly, resultsOnly, failed, calls) ==
  [content |-> [excludeThinking |-> FALSE, excludeSystemReminders |-> FALSE,
                excludeErrors |-> FALSE],
   subAgents |-> [excludeCalls |-> calls, excludeResponses |-> FALSE],
   tools |-> ToolsAxis(exclusion, callsOnly, resultsOnly, failed),
   messages |-> <<>>,
   advanced |-> [preserveContext |-> TRUE, compactMode |-> FALSE]]

Init ==
  /\ entries = <<>>
  /\ env = <<>>
  /\ presetArg = UNDEFINED
  /\ config = getFilterConfigFromEnv(<<>>)
  /\ filtered = <<>>
  /\ refiltered = <<>>
  /\ pc = "build"
  /\ selected = <<>>
  /\ userMessageIndex = 0
  /\ document = [root |-> "none"]
  /\ cache = <<>>
  /\ fileSystem = "file"
  /\ stats = [total |-> 0, filtered |-> 0,
              byCategory |-> [thinking |-> 0, subAgentCalls |-> 0,
                              subAgentResponses |-> 0, tools |-> 0,
                              failed |-> 0],
              tokensSaved |-> 0]
  /\ lru = [now |-> 0, store |-> <<>>, written |-> <<>>,
            got |-> [key |-> "", branch |-> "none", entries |-> <<>>]]
  /\ tree = [roots |-> <<>>, children |-> <<>>, stack |-> <<>>, result |-> <<>>]

\* a line is appended to the transcript and parsed
AppendEntry(pool) ==
  /\ pc = "build"
  /\ Len(entries) < MaxEntries
  /\ \E t \in 1..Len(pool) :
       entries' = Append(entries, MkEntry(pool[t], Len(entries) + 1))
  /\ UNCHANGED <<env, presetArg, config, filtered, refiltered, pc,
               selected, userMessageIndex, document, cache, fileSystem,
               stats,
               lru, tree>>

\* filterConversation(entries, c)
FilterWith(c) ==
  /\ pc = "build"
  /\ config' = c
  /\ filtered' = filterConversation(entries, c)
  /\ pc' = "filtered"
  /\ UNCHANGED <<entries, env, presetArg, refiltered,
               selected, userMessageIndex, document, cache, fileSystem,
               stats,
               lru, tree>>

\* filterConversation(filtered, config): the output is filtered again
FilterAgain ==
  /\ pc = "filtered"
  /\ refiltered' = filterConversation(filtered, config)
  /\ pc' = "refiltered"
  /\ UNCHANGED <<entries, env, presetArg, config, filtered,
               selected, userMessageIndex, document, cache, fileSystem,
               stats,
               lru, tree>>

AppendToolEntry == AppendEntry(EntryPool)

FilterConversation ==
  \E exclusion \in 1..4, callsOnly \in BOOLEAN, resultsOnly \in BOOLEAN,
     failed \in BOOLEAN, calls \in BOOLEAN :
    FilterWith(ToolConfig(exclusion, callsOnly, resultsOnly, failed, calls))

Next == AppendToolEntry \/ FilterConversation \/ FilterAgain

Spec == Init /\ [][Next]_vars

(***************************************************************************)
(* Transcript lines and configurations of the payload specification        *)
(* (SpecPayload): string payloads with blocks, padding and lengths around  *)
(* maxLength, and the shapes of toolUseResult.                             *)
(***************************************************************************)
SubAgentResult(obj) ==
  WithToolUseResult(UserMsg([arr |-> <<ToolResult("t3", [str |-> "found"])>>]),
                    [obj |-> obj])

PayloadPool ==
  << UserMsg([str |-> "  padded  "]),
     UserMsg([str |-> "abc"]),
     UserMsg([str |-> "abcdefgh"]),
     UserMsg([str |-> "  abcdefgh"]),
     UserMsg([str |-> ""]),
     AssistantMsg([str |-> "a<thinking>b</thinking>c"]),
     AssistantMsg([str |-> "<thi<thinking>x</thinking>nking>y</thinking>"]),
     AssistantMsg([arr |-> <<Text("<thinking>x</thinking>")>>]),
     AssistantMsg([arr |-> <<>>]),
     AssistantMsg([arr |-> <<Text("<thinking>x</thinking>"),
                             ToolUse("t1", "Bash", [command |-> [str |-> ""]])>>]),
     AssistantMsg([arr |-> <<Text(" see below "),
                             ToolUse("t1", "Bash",
                                     [command |-> [str |-> " ls -la "],
                                      timeout |-> [num |-> 5]])>>]),
     UserMsg([arr |-> <<ToolResult("t1",
                  [str |-> "out <system-reminder>r</system-reminder> "])>>]),
     UserMsg([arr |-> <<ToolResult("t1", [arr |-> <<Text(" block ")>>])>>]),
     SubAgentResult([totalDurationMs |-> [num |-> 5000],
                     totalTokens |-> [num |-> 1000],
                     totalToolUseCount |-> [num |-> 3]]),
     SubAgentResult([totalDurationMs |-> [num |-> 5000],
                     totalTokens |-> [num |-> 1000],
                     totalToolUseCount |-> [num |-> 0]]),
     SubAgentResult([totalDurationMs |-> [num |-> 0],
                     totalTokens |-> [num |-> 1000],
                     totalToolUseCount |-> [num |-> 3]]),
     SubAgentResult([totalDurationMs |-> [num |-> 5000],
                     totalTokens |-> [num |-> 0],
                     totalToolUseCount |-> [num |-> 3]]),
     SubAgentResult([totalDurationMs |-> [num |-> 5000],
                     totalToolUseCount |-> [num |-> 3]]),
     SubAgentResult([totalDurationMs |-> [num |-> 5000],
                     totalTokens |-> [num |-> 1000]]),
     WithToolUseResult(UserMsg([arr |-> <<ToolResult("t1", [str |-> "done"])>>]),
                       [str |-> "done"]) >>

\* the values of content.customPatterns: unset, a literal, an invalid regex
PatternChoices == << <<>>, <<"b">>, <<"(">> >>

\* the values of messages.maxLength; 0 stands for unset
LengthChoices == <<0, 3, 5>>

PayloadConfig(thinking, reminders, patterns, maxLength, empty, responses) ==
  [content |->
     IF patterns = 1
     THEN [excludeThinking |-> thinking, excludeSystemReminders |-> reminders,
           excludeErrors |-> FALSE]
     ELSE [excludeThinking |-> thinking, excludeSystemReminders |-> reminders,
           excludeErrors |-> FALSE, customPatterns |-> PatternChoices[patterns]],
   subAgents |-> [excludeCalls |-> FALSE, excludeResponses |-> responses],
   tools |-> <<>>,
   messages |->
     IF LengthChoices[maxLength] = 0 THEN [excludeEmpty |-> empty]
     ELSE [excludeEmpty |-> empty, maxLength |-> LengthChoices[maxLength]],
   advanced |-> [preserveContext |-> TRUE, compactMode |-> FALSE]]

AppendPayloadEntry ==
  /\ Len(entries) < MaxPayloadEntries
  /\ AppendEntry(PayloadPool)

FilterPayload ==
  \E thinking \in BOOLEAN, reminders \in BOOLEAN,
     patterns \in 1..Len(PatternChoices), maxLength \in 1..Len(LengthChoices),
     empty \in BOOLEAN, responses \in BOOLEAN :
    FilterWith(PayloadConfig(thinking, reminders, patterns, maxLength, empty,
                             responses))

\* filterConversation(entries, getFilterConfig(presetName)), as the tools do
FilterWithPreset ==
  \E presetName \in {"none", "light", "heavy"} :
    /\ pc = "build"
    /\ presetArg' = presetName
    /\ config' = getFilterConfig(presetName, env)
    /\ filtered' = filterConversation(entries, config')
    /\ pc' = "filtered"
    /\ UNCHANGED <<entries, env, refiltered,
               selected, userMessageIndex, document, cache, fileSystem,
               stats,
               lru, tree>>

NextPayload ==
  AppendPayloadEntry \/ FilterPayload \/ FilterWithPreset \/ FilterAgain

SpecPayload == Init /\ [][NextPayload]_vars

(***************************************************************************)
(* Configuration resolution (SpecConfig): process.env is set, then         *)
(* getFilterConfig is called with a preset name.                           *)
(***************************************************************************)
BooleanVars ==
  {"SUBAGENT_EXCLUDE_THINKING", "SUBAGENT_EXCLUDE_SYSTEM_REMINDERS",
   "SUBAGENT_EXCLUDE_ERRORS", "SUBAGENT_EXCLUDE_SUBAGENT_CALLS",
   "SUBAGENT_EXCLUDE_SUBAGENT_RESPONSES", "SUBAGENT_EXCLUDE_TOOL_CALLS_ONLY",
   "SUBAGENT_EXCLUDE_TOOL_RESULTS_ONLY", "SUBAGENT_EXCLUDE_FAILED_TOOLS",
   "SUBAGENT_EXCLUDE_EMPTY", "SUBAGENT_PRESERVE_CONTEXT",
   "SUBAGENT_COMPACT_MODE"}

ListVars ==
  {"SUBAGENT_CUSTOM_PATTERNS", "SUBAGENT_EXCLUDE_TOOL_CATEGORIES",
   "SUBAGENT_EXCLUDE_TOOLS", "SUBAGENT_EXCLUDE_ROLES"}

\* the values process.env takes in the model, per variable
EnvValues(name) ==
  IF name \in BooleanVars THEN {"true", "false"}
  ELSE IF name \in ListVars THEN {"", "Edit", "file_edit,web"}
  ELSE {"3", "120"}

EnvVars == BooleanVars \cup ListVars \cup {"SUBAGENT_MAX_MESSAGE_LENGTH"}

\* preset names handed to getFilterConfig: the defined presets, no name,
\* names of the FilterPreset type without a preset, and other strings
PresetNames ==
  {"none", "light", "heavy", UNDEFINED, "", "smart", "invalid-preset",
   "constructor", "__proto__"}

\* process.env.NAME = value
SetEnv ==
  /\ pc = "build"
  /\ Cardinality(DOMAIN env) < MaxOverrides
  /\ \E name \in EnvVars \ DOMAIN env : \E value \in EnvValues(name) :
       env' = [k \in DOMAIN env \cup {name} |->
                 IF k = name THEN value ELSE env[k]]
  /\ UNCHANGED <<entries, presetArg, config, filtered, refiltered, pc,
               selected, userMessageIndex, document, cache, fileSystem,
               stats,
               lru, tree>>

\* config = getFilterConfig(presetName)
GetFilterConfig ==
  /\ pc = "build"
  /\ \E presetName \in PresetNames :
       /\ presetArg' = presetName
       /\ config' = getFilterConfig(presetName, env)
  /\ pc' = "resolved"
  /\ UNCHANGED <<entries, env, filtered, refiltered,
               selected, userMessageIndex, document, cache, fileSystem,
               stats,
               lru, tree>>

NextConfig == SetEnv \/ GetFilterConfig

SpecConfig == Init /\ [][NextConfig]_vars

(***************************************************************************)
(* Vocabulary of the properties.                                           *)
(***************************************************************************)
Filtered == pc \in {"filtered", "refiltered"}

Uuids(list) == [i \in 1..Len(list) |-> list[i].uuid]

Present(uuid, list) == \E j \in 1..Len(list) : list[j].uuid = uuid

\* the tool_use items of an assistant entry with array content
ToolUseItems(entry) ==
  IF entry.type = "assistant" /\ IsArr(entry.message.content)
  THEN {i \in 1..Len(entry.message.content.arr) :
          entry.message.content.arr[i].type = "tool_use"}
  ELSE {}

\* the tool_result items of a user entry with array content
ToolResultItems(entry) ==
  IF entry.type = "user" /\ IsArr(entry.message.content)
  THEN {i \in 1..Len(entry.message.content.arr) :
          entry.message.content.arr[i].type = "tool_result"}
  ELSE {}

\* the tool is excluded by name (tools.excludeSpecific) or by category
\* (tools.excludeCategories) in configuration c
ToolExcluded(name, c) ==
  \/ /\ Has(c.tools, "excludeSpecific")
     /\ \E k \in 1..Len(c.tools.excludeSpecific) : c.tools.excludeSpecific[k] = name
  \/ /\ Has(c.tools, "excludeCategories")
     /\ name \in DOMAIN TOOL_CATEGORIES
     /\ \E k \in 1..Len(c.tools.excludeCategories) :
          c.tools.excludeCategories[k] = TOOL_CATEGORIES[name]

\* entries[i] invokes excluded tools only and entries[i + 1] is the result
\* event that answers one of its invocations
ExcludedPair(i) ==
  LET call == entries[i]
      res == entries[i + 1]
  IN /\ ToolUseItems(call) # {}
     /\ \A k \in ToolUseItems(call) :
          ToolExcluded(call.message.content.arr[k].name, config)
     /\ \E k \in ToolUseItems(call), r \in ToolResultItems(res) :
          res.message.content.arr[r].tool_use_id = call.message.content.arr[k].id

\* no exclusion rule other than tool exclusion applies to entries[i] and
\* entries[i + 1]: sub-agent calls, failed results
NoOtherRule(i) ==
  /\ ~(config.subAgents.excludeCalls
        /\ \E k \in ToolUseItems(entries[i]) :
             entries[i].message.content.arr[k].name = "Task")
  /\ ~(Flag(config.tools, "excludeFailed")
        /\ \E r \in ToolResultItems(entries[i + 1]) :
             LET item == entries[i + 1].message.content.arr[r]
             IN \/ Has(item, "is_error") /\ item.is_error
                \/ /\ Has(item, "content") /\ IsStr(item.content)
                   /\ Includes(item.content.str, "[Request interrupted"))

(***************************************************************************)
(* C1 - Pairing symmetry: when a tool-invocation event of an excluded tool *)
(* is immediately followed by the tool-result event answering it and no    *)
(* other exclusion rule applies, filterConversation removes both events    *)
(* when neither excludeCallsOnly nor excludeResultsOnly is set, removes    *)
(* only the call when only excludeCallsOnly is set, and removes only the   *)
(* result when only excludeResultsOnly is set.                             *)
(***************************************************************************)
C1_PairingSymmetry ==
  Filtered =>
    \A i \in 1..(Len(entries) - 1) :
      (ExcludedPair(i) /\ NoOtherRule(i)) =>
        LET callsOnly == Flag(config.tools, "excludeCallsOnly")
            resultsOnly == Flag(config.tools, "excludeResultsOnly")
            callPresent == Present(entries[i].uuid, filtered)
            resultPresent == Present(entries[i + 1].uuid, filtered)
        IN /\ (~callsOnly /\ ~resultsOnly) => (~callPresent /\ ~resultPresent)
           /\ (callsOnly /\ ~resultsOnly) => (~callPresent /\ resultPresent)
           /\ (resultsOnly /\ ~callsOnly) => (callPresent /\ ~resultPresent)

C1_Witness ==
  /\ pc = "filtered"
  /\ Len(entries) = 3
  /\ ExcludedPair(2) /\ NoOtherRule(2)
  /\ Flag(config.tools, "excludeCallsOnly")
  /\ ~Flag(config.tools, "excludeResultsOnly")
  /\ ~Present(entries[2].uuid, filtered)
  /\ Present(entries[3].uuid, filtered)

(***************************************************************************)
(* C3 - Order preservation: the uuids of filterConversation's output form  *)
(* a subsequence of the input uuids: every output event is an input event, *)
(* none appears twice, and survivors keep their relative input order.      *)
(***************************************************************************)
\* the index in list of the entry with this uuid (uuids are unique)
IndexOfUuid(uuid, list) == CHOOSE i \in 1..Len(list) : list[i].uuid = uuid

IsSubsequenceOf(out, in) ==
  /\ \A j \in 1..Len(out) : Present(out[j].uuid, in)
  /\ \A j, k \in 1..Len(out) :
       j < k => IndexOfUuid(out[j].uuid, in) < IndexOfUuid(out[k].uuid, in)

C3_OrderPreservation == Filtered => IsSubsequenceOf(filtered, entries)

C3_Witness ==
  /\ pc = "filtered"
  /\ Len(entries) = 3
  /\ Uuids(filtered) = <<entries[1].uuid, entries[3].uuid>>

(***************************************************************************)
(* C5 - With tools.excludeResultsOnly unset, no event of the output is an  *)
(* assistant event whose content contains a tool-invocation item naming a  *)
(* tool excluded by tools.excludeSpecific or tools.excludeCategories,      *)
(* whichever item of the event it is.                                      *)
(***************************************************************************)
InvokesExcludedTool(entry, c) ==
  \E k \in ToolUseItems(entry) :
    ToolExcluded(entry.message.content.arr[k].name, c)

C5_NoExcludedInvocation ==
  (Filtered /\ ~Flag(config.tools, "excludeResultsOnly")) =>
    \A j \in 1..Len(filtered) : ~InvokesExcludedTool(filtered[j], config)

(***************************************************************************)
(* C6 - With subAgents.excludeCalls set, no event of the output is an      *)
(* assistant event whose content contains a tool-invocation item named     *)
(* "Task", whatever the item's position and whatever the tools flags.      *)
(***************************************************************************)
InvokesTask(entry) ==
  \E k \in ToolUseItems(entry) : entry.message.content.arr[k].name = "Task"

C6_NoSubAgentCall ==
  (Filtered /\ config.subAgents.excludeCalls) =>
    \A j \in 1..Len(filtered) : ~InvokesTask(filtered[j])

C6_Witness ==
  /\ pc = "filtered"
  /\ config.subAgents.excludeCalls
  /\ Flag(config.tools, "excludeResultsOnly")
  /\ Len(entries) = 2
  /\ InvokesTask(entries[2])
  /\ entries[2].message.content.arr[1].type = "text"
  /\ Uuids(filtered) = <<entries[1].uuid>>

(***************************************************************************)
(* C2 - Idempotence: filtering the output of filterConversation again with *)
(* the same configuration returns that output unchanged.                   *)
(***************************************************************************)
C2_Idempotence == pc = "refiltered" => refiltered = filtered

(***************************************************************************)
(* C4 - Sub-agent response detection: with subAgents.excludeResponses set  *)
(* and no other exclusion rule enabled, a user event is absent from the    *)
(* output exactly when its toolUseResult is an object that carries the     *)
(* three fields totalDurationMs, totalTokens and totalToolUseCount with    *)
(* numeric values, whatever the numbers are.                               *)
(***************************************************************************)
HasThreeNumericFields(entry) ==
  /\ Has(entry, "toolUseResult")
  /\ Has(entry.toolUseResult, "obj")
  /\ \A f \in {"totalDurationMs", "totalTokens", "totalToolUseCount"} :
       Has(entry.toolUseResult.obj, f) /\ IsNum(entry.toolUseResult.obj[f])

NonEmptyList(axis, name) == Has(axis, name) /\ Len(axis[name]) > 0

OnlyResponsesExcluded(c) ==
  /\ c.subAgents.excludeResponses
  /\ ~c.subAgents.excludeCalls
  /\ ~Flag(c.messages, "excludeEmpty")
  /\ ~NonEmptyList(c.messages, "excludeByRole")
  /\ ~Flag(c.tools, "excludeFailed")
  /\ ~NonEmptyList(c.tools, "excludeSpecific")
  /\ ~NonEmptyList(c.tools, "excludeCategories")

C4_SubAgentResponseDetection ==
  (Filtered /\ OnlyResponsesExcluded(config)) =>
    \A i \in 1..Len(entries) :
      entries[i].type = "user" =>
        (~Present(entries[i].uuid, filtered) <=> HasThreeNumericFields(entries[i]))

(***************************************************************************)
(* C9 - Truncation exactness.  Rewritten(content, f) is the content with f *)
(* applied to each of its string payloads: string content, the text of a   *)
(* content item and, for items without text, the top-level string fields   *)
(* of a tool_use input and the string content of a tool_result.            *)
(***************************************************************************)
RewrittenItem(item, f(_)) ==
  IF Has(item, "text") /\ item.text # ""
  THEN [item EXCEPT !.text = f(item.text)]
  ELSE IF item.type = "tool_use" /\ Has(item, "input")
  THEN [item EXCEPT !.input =
          [key \in DOMAIN item.input |->
             IF IsStr(item.input[key]) THEN [str |-> f(item.input[key].str)]
             ELSE item.input[key]]]
  ELSE IF item.type = "tool_result" /\ Has(item, "content") /\ IsStr(item.content)
  THEN [item EXCEPT !.content = [str |-> f(item.content.str)]]
  ELSE item

Rewritten(content, f(_)) ==
  IF IsStr(content) THEN [str |-> f(content.str)]
  ELSE IF IsArr(content)
  THEN [arr |-> [i \in 1..Len(content.arr) |-> RewrittenItem(content.arr[i], f)]]
  ELSE content

\* the input entry a surviving entry comes from
Origin(out) == entries[IndexOfUuid(out.uuid, entries)]

MaxLengthSet == Has(config.messages, "maxLength") /\ config.messages.maxLength > 0

NoContentPattern ==
  /\ ~config.content.excludeThinking
  /\ ~config.content.excludeSystemReminders
  /\ ~Has(config.content, "customPatterns")

FirstCharsAndMarker(p, max) ==
  IF Len(p) > max THEN SubSeq(p, 1, max) \o "...[truncated]" ELSE p

\* C9 as stated: with maxLength = M set and no content pattern enabled, a
\* string payload longer than M becomes exactly its first M characters
\* followed by the marker, and a payload of at most M characters is untouched
C9_TruncationExactness ==
  (Filtered /\ MaxLengthSet /\ NoContentPattern) =>
    \A j \in 1..Len(filtered) :
      filtered[j].message.content =
        Rewritten(Origin(filtered[j]).message.content,
                  LAMBDA p : FirstCharsAndMarker(p, config.messages.maxLength))

\* the payload as the content patterns of the configuration leave it
Stripped(p) ==
  applyCustomPatterns(
    removeSystemReminders(removeThinkingBlocks(p, config), config), config)

\* C9 as amended: with maxLength = M > 0 set, every string payload of a
\* surviving event becomes, L being its length after content-pattern
\* stripping, the first M characters of the stripped payload followed by
\* the marker when L > M and the stripped payload when L <= M, in both
\* cases with leading and trailing whitespace trimmed
C9_TruncationThenTrim ==
  (Filtered /\ MaxLengthSet) =>
    \A j \in 1..Len(filtered) :
      filtered[j].message.content =
        Rewritten(Origin(filtered[j]).message.content,
                  LAMBDA p : Trim(FirstCharsAndMarker(Stripped(p),
                                                      config.messages.maxLength)))

C9_Witness ==
  /\ pc = "filtered"
  /\ MaxLengthSet /\ config.messages.maxLength = 3
  /\ Len(entries) = 1 /\ Len(filtered) = 1
  /\ entries[1].message.content = [str |-> "  abcdefgh"]
  /\ filtered[1].message.content = [str |-> "a...[truncated]"]

(***************************************************************************)
(* C10 - With the 'none' preset and no overrides filterConversation is the *)
(* identity: every input event is returned, in input order, with content   *)
(* identical to the input's.                                               *)
(***************************************************************************)
C10_NonePresetIdentity ==
  (Filtered /\ presetArg = "none" /\ DOMAIN env = {}) => filtered = entries

(***************************************************************************)
(* C7 - Preset fallback: getFilterConfig called with a name that is not a  *)
(* defined preset does not throw and returns the configuration it returns  *)
(* for 'heavy' under the same environment.                                 *)
(***************************************************************************)
C7_PresetFallback ==
  (pc = "resolved" /\ presetArg \notin DOMAIN FILTER_PRESETS) =>
    (~Threw(config) /\ config = getFilterConfig("heavy", env))

(***************************************************************************)
(* C8 - Configuration resolution: for every preset and every set of        *)
(* overrides, each field that has an override takes the override's value,  *)
(* every field without an override takes the preset's value (unset or      *)
(* false where the preset has none), and an axis none of whose fields is   *)
(* overridden is the preset's axis.                                        *)
(***************************************************************************)
\* what the values of the environment mean
ListMeaning(value) ==
  CASE value = "" -> <<"">>
    [] value = "Edit" -> <<"Edit">>
    [] value = "file_edit,web" -> <<"file_edit", "web">>

NumberMeaning(value) == CASE value = "3" -> 3 [] value = "120" -> 120

BoolResolved(actual, envName, presetValue) ==
  actual = (IF Has(env, envName) THEN env[envName] = "true" ELSE presetValue)

ListResolved(axis, name, envName, presetAxis) ==
  IF Has(env, envName)
  THEN Has(axis, name) /\ axis[name] = ListMeaning(env[envName])
  ELSE IF Has(presetAxis, name)
  THEN Has(axis, name) /\ axis[name] = presetAxis[name]
  ELSE ~Has(axis, name)

AxisVars ==
  [content |-> {"SUBAGENT_EXCLUDE_THINKING", "SUBAGENT_EXCLUDE_SYSTEM_REMINDERS",
                "SUBAGENT_EXCLUDE_ERRORS", "SUBAGENT_CUSTOM_PATTERNS"},
   subAgents |-> {"SUBAGENT_EXCLUDE_SUBAGENT_CALLS",
                  "SUBAGENT_EXCLUDE_SUBAGENT_RESPONSES"},
   tools |-> {"SUBAGENT_EXCLUDE_TOOL_CATEGORIES", "SUBAGENT_EXCLUDE_TOOLS",
              "SUBAGENT_EXCLUDE_TOOL_CALLS_ONLY",
              "SUBAGENT_EXCLUDE_TOOL_RESULTS_ONLY",
              "SUBAGENT_EXCLUDE_FAILED_TOOLS"},
   messages |-> {"SUBAGENT_EXCLUDE_EMPTY", "SUBAGENT_EXCLUDE_ROLES",
                 "SUBAGENT_MAX_MESSAGE_LENGTH"},
   advanced |-> {"SUBAGENT_PRESERVE_CONTEXT", "SUBAGENT_COMPACT_MODE"}]

FieldsResolved(c, preset) ==
  /\ BoolResolved(c.content.excludeThinking, "SUBAGENT_EXCLUDE_THINKING",
                  preset.content.excludeThinking)
  /\ BoolResolved(c.content.excludeSystemReminders,
                  "SUBAGENT_EXCLUDE_SYSTEM_REMINDERS",
                  preset.content.excludeSystemReminders)
  /\ BoolResolved(c.content.excludeErrors, "SUBAGENT_EXCLUDE_ERRORS",
                  preset.content.excludeErrors)
  /\ ListResolved(c.content, "customPatterns", "SUBAGENT_CUSTOM_PATTERNS",
                  preset.content)
  /\ BoolResolved(c.subAgents.excludeCalls, "SUBAGENT_EXCLUDE_SUBAGENT_CALLS",
                  preset.subAgents.excludeCalls)
  /\ BoolResolved(c.subAgents.excludeResponses,
                  "SUBAGENT_EXCLUDE_SUBAGENT_RESPONSES",
                  preset.subAgents.excludeResponses)
  /\ ListResolved(c.tools, "excludeCategories",
                  "SUBAGENT_EXCLUDE_TOOL_CATEGORIES", preset.tools)
  /\ ListResolved(c.tools, "excludeSpecific", "SUBAGENT_EXCLUDE_TOOLS",
                  preset.tools)
  /\ BoolResolved(c.tools.excludeCallsOnly, "SUBAGENT_EXCLUDE_TOOL_CALLS_ONLY",
                  FALSE)
  /\ BoolResolved(c.tools.excludeResultsOnly,
                  "SUBAGENT_EXCLUDE_TOOL_RESULTS_ONLY", FALSE)
  /\ BoolResolved(c.tools.excludeFailed, "SUBAGENT_EXCLUDE_FAILED_TOOLS",
                  preset.tools.excludeFailed)
  /\ BoolResolved(c.messages.excludeEmpty, "SUBAGENT_EXCLUDE_EMPTY",
                  preset.messages.excludeEmpty)
  /\ ListResolved(c.messages, "excludeByRole", "SUBAGENT_EXCLUDE_ROLES",
                  preset.messages)
  /\ IF Has(env, "SUBAGENT_MAX_MESSAGE_LENGTH")
     THEN /\ Has(c.messages, "maxLength")
          /\ c.messages.maxLength =
               NumberMeaning(env["SUBAGENT_MAX_MESSAGE_LENGTH"])
     ELSE ~Has(c.messages, "maxLength")
  /\ BoolResolved(c.advanced.preserveContext, "SUBAGENT_PRESERVE_CONTEXT",
                  preset.advanced.preserveContext)
  /\ BoolResolved(c.advanced.compactMode, "SUBAGENT_COMPACT_MODE",
                  preset.advanced.compactMode)

C8_ConfigurationResolution ==
  (pc = "resolved" /\ presetArg \in DOMAIN FILTER_PRESETS) =>
    /\ FieldsResolved(config, FILTER_PRESETS[presetArg])
    /\ \A axis \in DOMAIN AxisVars :
         (DOMAIN env \cap AxisVars[axis] = {}) =>
           config[axis] = getFilterConfig(presetArg, <<>>)[axis]

C8_Witness ==
  /\ pc = "resolved"
  /\ presetArg = "light"
  /\ DOMAIN env = {"SUBAGENT_EXCLUDE_THINKING", "SUBAGENT_MAX_MESSAGE_LENGTH"}
  /\ env["SUBAGENT_EXCLUDE_THINKING"] = "false"
  /\ config.content.excludeThinking = FALSE
  /\ config.messages.maxLength = 120
  /\ config.subAgents = FILTER_PRESETS.light.subAgents

(***************************************************************************)
(* parser.ts and conversation-base.ts: selection of a prefix of the        *)
(* transcript (SpecSelect).                                                *)
(***************************************************************************)
\* the for loop of getUpToUserMessage from position i on
RECURSIVE UpToLoop(_, _, _, _, _)
UpToLoop(list, index, i, userMessageCount, result) ==
  IF i > Len(list) THEN result
  ELSE IF list[i].type = "user"
  THEN IF userMessageCount + 1 >= index THEN result
       ELSE UpToLoop(list, index, i + 1, userMessageCount + 1,
                     Append(result, list[i]))
  ELSE UpToLoop(list, index, i + 1, userMessageCount, Append(result, list[i]))

\* mutant: the loop stops one user message late
getUpToUserMessage_Inclusive(list, index) ==
  IF index <= 0 THEN <<>> ELSE UpToLoop(list, index + 1, 1, 0, <<>>)

\* mutant: the index is taken as the position of the event to stop at
getUpToUserMessage_ByPosition(list, index) ==
  IF index <= 0 THEN <<>>
  ELSE SubSeq(list, 1, IF index - 1 < Len(list) THEN index - 1 ELSE Len(list))

getUpToUserMessage(list, index) ==
  IF index <= 0 THEN <<>> ELSE UpToLoop(list, index, 1, 0, <<>>)

\* the backward scan of excludeLastUserMessage: the 1-based position of the
\* last entry of type user at or before i, 0 when there is none
RECURSIVE LastUserMessageIndex(_, _)
LastUserMessageIndex(list, i) ==
  IF i < 1 THEN 0
  ELSE IF list[i].type = "user" THEN i
  ELSE LastUserMessageIndex(list, i - 1)

\* mutant: the slice ends after the last user message
excludeLastUserMessage_KeepsLast(list) ==
  IF Len(list) = 0 THEN list
  ELSE LET last == LastUserMessageIndex(list, Len(list))
       IN IF last >= 1 THEN SubSeq(list, 1, last) ELSE list

excludeLastUserMessage(list) ==
  IF Len(list) = 0 THEN list
  ELSE LET last == LastUserMessageIndex(list, Len(list))
       IN IF last >= 1 THEN SubSeq(list, 1, last - 1) ELSE list

\* the indexes handed to getUpToUserMessage
IndexChoices == (0 - 1)..(MaxEntries + 1)

\* selected = getUpToUserMessage(entries, index)
GetUpToUserMessage ==
  /\ pc = "build"
  /\ \E index \in IndexChoices :
       /\ userMessageIndex' = index
       /\ selected' = getUpToUserMessage(entries, index)
  /\ pc' = "upto"
  /\ UNCHANGED <<entries, env, presetArg, config, filtered, refiltered,
                 document, cache, fileSystem, stats,
               lru, tree>>

\* selected = excludeLastUserMessage(entries)
ExcludeLastUserMessage ==
  /\ pc = "build"
  /\ selected' = excludeLastUserMessage(entries)
  /\ pc' = "last"
  /\ UNCHANGED <<entries, env, presetArg, config, filtered, refiltered,
                 userMessageIndex, document, cache, fileSystem, stats,
               lru, tree>>

NextSelect == AppendToolEntry \/ GetUpToUserMessage \/ ExcludeLastUserMessage

SpecSelect == Init /\ [][NextSelect]_vars

\* the positions of the user-role events of a list
UserPositions(list) == {i \in 1..Len(list) : list[i].type = "user"}

(***************************************************************************)
(* C11 - getUpToUserMessage(events, n) returns the longest prefix of       *)
(* events that lies strictly before the n-th user-role event: the empty    *)
(* list when n is 0 or negative, the whole list when the list holds fewer  *)
(* than n user-role events.                                                *)
(***************************************************************************)
C11_UpToUserMessage ==
  pc = "upto" =>
    LET users == UserPositions(entries)
    IN IF userMessageIndex <= 0 THEN selected = <<>>
       ELSE IF Cardinality(users) < userMessageIndex THEN selected = entries
       ELSE \E p \in users :
              /\ Cardinality({u \in users : u <= p}) = userMessageIndex
              /\ selected = SubSeq(entries, 1, p - 1)

C11_Witness ==
  /\ pc = "upto"
  /\ userMessageIndex = 2
  /\ Cardinality(UserPositions(entries)) >= 2
  /\ Len(selected) = 2
  /\ Len(entries) > 2

(***************************************************************************)
(* C12 - excludeLastUserMessage(events) returns the prefix of events       *)
(* strictly before the last user-role event; a list without a user-role    *)
(* event, the empty list included, is returned unchanged.                  *)
(***************************************************************************)
C12_ExcludeLastUserMessage ==
  pc = "last" =>
    LET users == UserPositions(entries)
    IN IF users = {} THEN selected = entries
       ELSE \E p \in users :
              /\ \A u \in users : u <= p
              /\ selected = SubSeq(entries, 1, p - 1)
              /\ \A j \in 1..Len(selected) : selected[j].uuid # entries[p].uuid

C12_Witness ==
  /\ pc = "last"
  /\ Len(entries) = 3
  /\ entries[2].type = "user"
  /\ entries[3].type # "user"
  /\ Len(selected) = 1

(***************************************************************************)
(* xml.ts: the documents the tools return.  A document is represented by   *)
(* its element tree: the name of the root element and the text of its      *)
(* child elements.  The content element of a message is represented by the *)
(* content it is formatted from.                                           *)
(***************************************************************************)
RECURSIVE escapeXML(_)
escapeXML(str) ==
  IF str = "" THEN ""
  ELSE IF Len(str) = 1
  THEN (CASE str = "&" -> "&amp;"
          [] str = "<" -> "&lt;"
          [] str = ">" -> "&gt;"
          [] str = "\"" -> "&quot;"
          [] str = "'" -> "&apos;"
          [] OTHER -> str)
  ELSE LET half == Len(str) \div 2
       IN escapeXML(SubSeq(str, 1, half))
            \o escapeXML(SubSeq(str, half + 1, Len(str)))

\* the outcome of a call that throws an Error with a message
Error(message) == [threw |-> "Error", message |-> message]

\* escapeXML(entry.message.role) throws when the message has no role
formatMessage(entry) ==
  IF ~Has(entry.message, "role")
  THEN [threw |-> "TypeError",
        message |-> "Cannot read properties of undefined (reading 'replace')"]
  ELSE [uuid |-> escapeXML(entry.uuid),
        timestamp |-> escapeXML(entry.timestamp),
        role |-> escapeXML(entry.message.role),
        type |-> escapeXML(entry.type),
        content |-> entry.message.content]

toXML(list, metadata) ==
  LET messages == [i \in 1..Len(list) |-> formatMessage(list[i])]
      thrown == {i \in 1..Len(list) : Has(messages[i], "threw")}
  IN IF thrown # {}
     THEN messages[CHOOSE i \in thrown : \A j \in thrown : i <= j]
     ELSE IF Len(list) > 0
     THEN [root |-> "conversation",
           session_id |-> escapeXML(metadata.sessionId),
           project_path |-> escapeXML(metadata.projectPath),
           message_count |-> Len(list),
           first_message_time |-> escapeXML(list[1].timestamp),
           last_message_time |-> escapeXML(list[Len(list)].timestamp),
           messages |-> messages]
     ELSE [root |-> "conversation",
           session_id |-> escapeXML(metadata.sessionId),
           project_path |-> escapeXML(metadata.projectPath),
           message_count |-> 0,
           messages |-> <<>>]

createErrorXML(error) == [root |-> "error", message |-> escapeXML(error)]

createEmptyConversationXML(reason) ==
  [root |-> "conversation", message_count |-> 0, note |-> escapeXML(reason),
   messages |-> <<>>]

(***************************************************************************)
(* cache.ts, conversation-base.ts and the two tools.  world is what a call *)
(* finds: the transcript file's parsed lines, process.env, the global      *)
(* cache and the answer of the file system.  A call returns its result (a  *)
(* document or a thrown error), the cache it leaves, the events it         *)
(* selected and the events it handed to toXML.                             *)
(***************************************************************************)
\* the file findMostRecentConversation returns when the file system answers
CONVERSATION_FILE == [path |-> "/home/.claude/projects/-p/s1.jsonl", sessionId |-> "s1"]

getCacheKey(filePath, suffix) ==
  IF suffix # UNDEFINED THEN filePath \o ":" \o suffix ELSE filePath

\* options.processEntries(entries): the callback the tool handed over
processEntries(options, list) ==
  IF options.processEntries = "excludeLastUserMessage"
  THEN excludeLastUserMessage(list)
  ELSE getUpToUserMessage(list, options.userMessageIndex)

\* mutant: the callback cuts the array it is handed down to its result
processEntriesLeaves_InPlace(options, list) ==
  processEntries(options, list)

\* the array handed to options.processEntries, which is the cached one, as
\* the call leaves it: excludeLastUserMessage slices and getUpToUserMessage
\* pushes to an array of its own, neither writes to its argument
processEntriesLeaves(options, list) ==
  list

\* the call left the try block of getConversationBase with an exception: the
\* catch clause throws new Error(error.message)
BaseThrows(error, cacheAfter, entriesToFilter) ==
  [result |-> Error(error.message), cache |-> cacheAfter,
   selected |-> entriesToFilter, filtered |-> <<>>]

getConversationBase(options, world) ==
  IF world.fileSystem = "locate-throws"
  THEN BaseThrows(Error("File system error"), world.cache, <<>>)
  ELSE IF world.fileSystem = "none"
  THEN [result |-> createEmptyConversationXML(
                     "No conversations found for this project"),
        cache |-> world.cache, selected |-> <<>>, filtered |-> <<>>]
  ELSE LET cacheKey ==
             getCacheKey(CONVERSATION_FILE.path,
                         IF Has(options, "cacheKeySuffix")
                         THEN options.cacheKeySuffix ELSE UNDEFINED)
           hit == cacheKey \in DOMAIN world.cache
       IN IF ~hit /\ world.fileSystem = "parse-throws"
          THEN BaseThrows(Error("Parse error"), world.cache, <<>>)
          ELSE LET parsed == IF hit THEN world.cache[cacheKey] ELSE world.entries
                   cacheAfter ==
                     MapSet(world.cache, cacheKey,
                            processEntriesLeaves(options, parsed))
                   entriesToFilter == processEntries(options, parsed)
                   filterConfig == getFilterConfigFromEnv(world.env)
               IN IF Len(entriesToFilter) = 0 /\ Has(options, "emptyMessage")
                  THEN [result |-> createEmptyConversationXML(options.emptyMessage),
                        cache |-> cacheAfter, selected |-> entriesToFilter,
                        filtered |-> <<>>]
                  ELSE IF filterConversationRaises(entriesToFilter, filterConfig)
                  THEN BaseThrows(
                         [message |-> "Cannot read properties of null"],
                         cacheAfter, entriesToFilter)
                  ELSE LET filteredEntries ==
                             filterConversation(entriesToFilter, filterConfig)
                           xml == toXML(filteredEntries,
                                        [sessionId |-> CONVERSATION_FILE.sessionId,
                                         projectPath |-> "/p"])
                       IN IF Has(xml, "threw")
                          THEN [result |-> Error(xml.message),
                                cache |-> cacheAfter,
                                selected |-> entriesToFilter,
                                filtered |-> filteredEntries]
                          ELSE [result |-> xml, cache |-> cacheAfter,
                                selected |-> entriesToFilter,
                                filtered |-> filteredEntries]

\* mutant: the catch clause of a tool returns the empty-conversation document
CatchAsErrorXML_EmptyDocument(call, prefix) ==
  IF Has(call.result, "threw")
  THEN [call EXCEPT !.result =
          createEmptyConversationXML(prefix \o call.result.message)]
  ELSE call

\* the try/catch of a tool around getConversationBase
CatchAsErrorXML(call, prefix) ==
  IF Has(call.result, "threw")
  THEN [call EXCEPT !.result = createErrorXML(prefix \o call.result.message)]
  ELSE call

\* params.filterPreset is not read
getCurrentConversation(params, world) ==
  CatchAsErrorXML(
    getConversationBase([cacheKeySuffix |-> "full",
                         processEntries |-> "excludeLastUserMessage"], world),
    "Failed to get current conversation: ")

\* params.filterPreset is handed to getConversationBase, which does not read it
getCurrentConversationUpto(params, world) ==
  IF params.userMessageIndex <= 0
  THEN [result |-> createEmptyConversationXML(
                     "User message index must be greater than 0"),
        cache |-> world.cache, selected |-> <<>>, filtered |-> <<>>]
  ELSE CatchAsErrorXML(
         getConversationBase(
           [filterPreset |-> params.filterPreset,
            processEntries |-> "getUpToUserMessage",
            userMessageIndex |-> params.userMessageIndex,
            emptyMessage |-> "No messages found before user message "
                               \o ToString(params.userMessageIndex)], world),
         "Failed to get conversation up to user message: ")

(***************************************************************************)
(* The tools (SpecTool): lines are appended to the transcript file, the    *)
(* file system changes its answer, and the tools are called repeatedly.    *)
(***************************************************************************)
MaxToolEntries == 1

ToolPool ==
  << UserMsg([str |-> "hi"]),
     AssistantMsg([str |-> "a<thinking>b</thinking>c"]),
     AssistantMsg([arr |-> <<ToolUse("t3", "Task", [prompt |-> [str |-> "find"]])>>]),
     [type |-> "assistant", message |-> [content |-> [str |-> "no role"]]],
     AssistantMsg([arr |-> <<[null |-> TRUE]>>]) >>

\* findMostRecentConversation returns the file, returns null or throws;
\* parseConversationFile throws
FileSystemAnswers == {"file", "none", "locate-throws", "parse-throws"}

\* the values of params.filterPreset
PresetArgs == {UNDEFINED, "none", "light", "heavy"}

ToolReady == pc \in {"build", "getCurrentConversation", "getCurrentConversationUpto"}

World == [entries |-> entries, env |-> env, cache |-> cache, fileSystem |-> fileSystem]

\* the caller has consumed the document of the previous call: what that call
\* returned is no longer part of the state
Consumed ==
  /\ document' = [root |-> "none"]
  /\ selected' = <<>>
  /\ filtered' = <<>>
  /\ presetArg' = UNDEFINED
  /\ userMessageIndex' = 0

\* a line is appended to the transcript file
AppendTranscriptLine ==
  /\ ToolReady
  /\ Len(entries) < MaxToolEntries
  /\ \E t \in 1..Len(ToolPool) :
       entries' = Append(entries, MkEntry(ToolPool[t], Len(entries) + 1))
  /\ pc' = "build"
  /\ Consumed
  /\ UNCHANGED <<env, config, refiltered, cache, fileSystem, stats,
               lru, tree>>

ChangeFileSystem ==
  /\ ToolReady
  /\ \E answer \in FileSystemAnswers \ {fileSystem} : fileSystem' = answer
  /\ pc' = "build"
  /\ Consumed
  /\ UNCHANGED <<entries, env, config, refiltered, cache, stats,
               lru, tree>>

\* the tool returns: its document and what the call leaves behind
Return(call, tool, params) ==
  /\ document' = call.result
  /\ cache' = call.cache
  /\ selected' = call.selected
  /\ filtered' = call.filtered
  /\ presetArg' = params.filterPreset
  /\ userMessageIndex' = params.userMessageIndex
  /\ pc' = tool
  /\ UNCHANGED <<entries, env, config, refiltered, fileSystem, stats,
               lru, tree>>

GetCurrentConversation ==
  /\ ToolReady
  /\ \E filterPreset \in PresetArgs :
       LET params == [filterPreset |-> filterPreset, userMessageIndex |-> 0]
       IN Return(getCurrentConversation(params, World),
                 "getCurrentConversation", params)

GetCurrentConversationUpto ==
  /\ ToolReady
  /\ \E filterPreset \in PresetArgs, index \in 0..2 :
       LET params == [filterPreset |-> filterPreset, userMessageIndex |-> index]
       IN Return(getCurrentConversationUpto(params, World),
                 "getCurrentConversationUpto", params)

NextTool ==
  \/ AppendTranscriptLine
  \/ ChangeFileSystem
  \/ GetCurrentConversation
  \/ GetCurrentConversationUpto

SpecTool == Init /\ [][NextTool]_vars

\* a tool has returned and nothing has happened since
Returned == pc \in {"getCurrentConversation", "getCurrentConversationUpto"}

\* the ids of the messages of the returned document
DocumentUuids == [i \in 1..Len(document.messages) |-> document.messages[i].uuid]

\* a sub-agent event: a Task invocation or a sub-agent response
SubAgentEvent(entry) == InvokesTask(entry) \/ HasThreeNumericFields(entry)

(***************************************************************************)
(* C13 - The filterPreset argument of the tools selects the configuration  *)
(* applied to the selected events: with 'none' the complete history is     *)
(* returned, with 'light' only reasoning blocks are removed (every         *)
(* selected event is returned), with 'heavy' or no argument no sub-agent   *)
(* event is returned.                                                      *)
(***************************************************************************)
C13_PresetSelectsConfiguration ==
  (Returned /\ document.root = "conversation") =>
    /\ presetArg \in {"none", "light"} => DocumentUuids = Uuids(selected)
    /\ presetArg \in {"heavy", UNDEFINED} =>
         \A i \in 1..Len(filtered) : ~SubAgentEvent(filtered[i])

(***************************************************************************)
(* C14 - The tools never throw: a failure raised while locating, parsing,  *)
(* selecting or filtering yields an error document (root element error);   *)
(* when no transcript exists, when the index is 0 or negative or when no   *)
(* event survives, the successful empty-conversation document              *)
(* (message_count 0) is returned, and the two are distinguishable.         *)
(***************************************************************************)
\* the cache key of the tool that returned
KeyOfTool ==
  IF pc = "getCurrentConversation" THEN CONVERSATION_FILE.path \o ":full"
  ELSE CONVERSATION_FILE.path

IndexRejected == pc = "getCurrentConversationUpto" /\ userMessageIndex <= 0

\* the call met a failure: the file system threw while locating, threw
\* while parsing (the parse was not cached), a selected event holds a null
\* content item, or an event to render has no role
FailureRaised ==
  /\ ~IndexRejected
  /\ \/ fileSystem = "locate-throws"
     \/ fileSystem = "parse-throws" /\ KeyOfTool \notin DOMAIN cache
     \/ \E i \in 1..Len(selected) :
          /\ IsArr(selected[i].message.content)
          /\ \E k \in 1..Len(selected[i].message.content.arr) :
               Has(selected[i].message.content.arr[k], "null")
     \/ \E i \in 1..Len(filtered) : ~Has(filtered[i].message, "role")

EmptyDocument(doc) == doc.root = "conversation" /\ doc.message_count = 0

C14_ErrorDocument ==
  Returned =>
    /\ document.root \in {"error", "conversation"}
    /\ FailureRaised => document.root = "error"
    /\ ~FailureRaised =>
         /\ document.root = "conversation"
         /\ (IndexRejected \/ fileSystem = "none" \/ Len(filtered) = 0)
              => EmptyDocument(document)
    /\ document.root = "error" => ~EmptyDocument(document)

C14_Witness ==
  /\ Returned
  /\ fileSystem = "parse-throws"
  /\ Len(entries) > 0
  /\ document.root = "error"
  /\ document.message = "Failed to get current conversation: Parse error"

(***************************************************************************)
(* C15 - filterConversation never mutates in place: when it returns, the   *)
(* input list and every input event are unchanged, and each surviving      *)
(* output event equals its input event in id, parentId, timestamp, role    *)
(* and toolOutcome; only the message content may differ.                   *)
(***************************************************************************)
\* out is the input event but for the content of its message
SameButContent(out, in) == [out EXCEPT !.message.content = in.message.content] = in

C15_NoMutation ==
  [][(pc = "build" /\ pc' = "filtered") =>
       /\ entries' = entries
       /\ \A j \in 1..Len(filtered') :
            \E i \in 1..Len(entries) :
              /\ entries[i].uuid = filtered'[j].uuid
              /\ SameButContent(filtered'[j], entries[i])]_vars

C15_Witness ==
  /\ pc = "filtered"
  /\ Len(filtered) = 1
  /\ Has(filtered[1], "toolUseResult")
  /\ filtered[1].toolUseResult = entries[1].toolUseResult
  /\ filtered[1].message.content # entries[1].message.content

(***************************************************************************)
(* Transcript lines of the failed-result specification (SpecFailed): tool  *)
(* results that carry the failure flag, the interruption marker, both or   *)
(* neither, after calls of excluded and of other tools.                    *)
(***************************************************************************)
MaxFailedEntries == 2

FailedPool ==
  << AssistantMsg([arr |-> <<ToolUse("t1", "Edit", [file_path |-> [str |-> "a.ts"]])>>]),
     AssistantMsg([arr |-> <<ToolUse("t1", "Bash", [command |-> [str |-> "ls"]])>>]),
     UserMsg([arr |-> <<FailedToolResult("t1", [str |-> "boom"])>>]),
     UserMsg([arr |-> <<ToolResult("t1",
                  [str |-> "[Request interrupted by user for tool use]"])>>]),
     UserMsg([arr |-> <<ToolResult("t1", [str |-> "done"]),
                        FailedToolResult("t2", [str |-> "bad"])>>]),
     UserMsg([arr |-> <<ToolResult("t1", [str |-> "done"])>>]),
     UserMsg([str |-> "[Request interrupted by user]"]) >>

AppendFailedEntry ==
  /\ Len(entries) < MaxFailedEntries
  /\ AppendEntry(FailedPool)

NextFailed == AppendFailedEntry \/ FilterConversation

SpecFailed == Init /\ [][NextFailed]_vars

\* the item carries the failure flag or its text holds the interruption marker
FailedItem(item) ==
  \/ Has(item, "is_error") /\ item.is_error
  \/ /\ Has(item, "content")
     /\ IsStr(item.content)
     /\ \E k \in 1..Len(item.content.str) :
          StartsWithAt(item.content.str, "[Request interrupted", k)

\* a user tool-result event holding a failed tool-result item
HoldsFailedResult(entry) ==
  \E r \in ToolResultItems(entry) : FailedItem(entry.message.content.arr[r])

(***************************************************************************)
(* C16 - With tools.excludeFailed set, every user tool-result event        *)
(* holding a tool-result item whose failure flag is set or whose text      *)
(* contains "[Request interrupted" is absent from the output, whatever its *)
(* tool, the event before it and the excludeCallsOnly / excludeResultsOnly *)
(* flags; with excludeFailed unset no event is removed for that reason:    *)
(* when no tool is excluded either, every such event is in the output.     *)
(***************************************************************************)
C16_ExcludeFailed ==
  Filtered =>
    \A i \in 1..Len(entries) :
      HoldsFailedResult(entries[i]) =>
        /\ Flag(config.tools, "excludeFailed") =>
             ~Present(entries[i].uuid, filtered)
        /\ (/\ ~Flag(config.tools, "excludeFailed")
            /\ ~NonEmptyList(config.tools, "excludeSpecific")
            /\ ~NonEmptyList(config.tools, "excludeCategories")) =>
             Present(entries[i].uuid, filtered)

C16_Witness ==
  /\ pc = "filtered"
  /\ Flag(config.tools, "excludeFailed")
  /\ Flag(config.tools, "excludeCallsOnly")
  /\ Len(entries) = 2
  /\ ToolUseItems(entries[1]) # {}
  /\ ~InvokesExcludedTool(entries[1], config)
  /\ HoldsFailedResult(entries[2])
  /\ ~(Has(entries[2].message.content.arr[1], "is_error"))
  /\ Uuids(filtered) = <<entries[1].uuid>>

(***************************************************************************)
(* C17 - With messages.excludeEmpty set, emptiness is judged on the whole  *)
(* rewritten content: no surviving event has content equal to the empty    *)
(* string or to an empty array, and an event the first pass does not       *)
(* exclude whose array content holds an item is kept with every item in    *)
(* place, a text item whose text became the empty string included.         *)
(***************************************************************************)
C17_ExcludeEmpty ==
  (Filtered /\ Flag(config.messages, "excludeEmpty")) =>
    /\ \A j \in 1..Len(filtered) :
         /\ filtered[j].message.content # [str |-> ""]
         /\ filtered[j].message.content # [arr |-> <<>>]
    /\ \A i \in 1..Len(entries) :
         (/\ entries[i].uuid \notin FilteredUuids(entries, config)
          /\ IsArr(entries[i].message.content)
          /\ Len(entries[i].message.content.arr) > 0) =>
           \E j \in 1..Len(filtered) :
             /\ filtered[j].uuid = entries[i].uuid
             /\ IsArr(filtered[j].message.content)
             /\ Len(filtered[j].message.content.arr)
                  = Len(entries[i].message.content.arr)
             /\ \A k \in 1..Len(entries[i].message.content.arr) :
                  /\ ItemType(filtered[j].message.content.arr[k])
                       = ItemType(entries[i].message.content.arr[k])
                  /\ DOMAIN filtered[j].message.content.arr[k]
                       = DOMAIN entries[i].message.content.arr[k]

C17_Witness ==
  /\ pc = "filtered"
  /\ Flag(config.messages, "excludeEmpty")
  /\ Len(filtered) = 1
  /\ IsArr(filtered[1].message.content)
  /\ filtered[1].message.content.arr = <<Text("")>>
  /\ entries[1].message.content.arr # <<Text("")>>

(***************************************************************************)
(* filter.ts: getFilterStatistics and its helpers.                         *)
(***************************************************************************)
\* the strings that JSON.stringify(item) writes between quotes for a content
\* item: its keys hold no '>', so only its string values matter
ItemStrings(item) ==
  {item[k] : k \in {f \in DOMAIN item : f \in {"type", "text", "id", "name",
                                                "tool_use_id"}}}
    \cup (IF Has(item, "input")
          THEN {item.input[k].str : k \in {f \in DOMAIN item.input :
                                             IsStr(item.input[f])}}
          ELSE {})
    \cup (IF Has(item, "content") /\ IsStr(item.content)
          THEN {item.content.str}
          ELSE IF Has(item, "content") /\ IsArr(item.content)
          THEN {item.content.arr[i].text :
                  i \in {j \in 1..Len(item.content.arr) :
                           Has(item.content.arr[j], "text")}}
          ELSE {})

\* JSON.stringify(content).includes(needle), for a needle that holds none of
\* the characters JSON escapes or writes itself
StringifyIncludes(content, needle) ==
  IF IsStr(content) THEN Includes(content.str, needle)
  ELSE IF IsArr(content)
  THEN \E i \in 1..Len(content.arr) :
         \E str \in ItemStrings(content.arr[i]) : Includes(str, needle)
  ELSE FALSE

updateThinkingStats(entry, filterConfig, st) ==
  IF ~filterConfig.content.excludeThinking THEN st
  ELSE IF StringifyIncludes(entry.message.content, "thinking>")
  THEN [st EXCEPT !.byCategory.thinking = @ + 1, !.tokensSaved = @ + 100]
  ELSE st

\* mutant: every counted response is estimated at the fallback constant
updateSubAgentStats_FixedEstimate(entry, filterConfig, st) ==
  LET afterCall ==
        IF isSubAgentCall(entry) /\ filterConfig.subAgents.excludeCalls
        THEN [st EXCEPT !.byCategory.subAgentCalls = @ + 1,
                        !.tokensSaved = @ + 150]
        ELSE st
  IN IF isSubAgentResponse(entry) /\ filterConfig.subAgents.excludeResponses
     THEN [afterCall EXCEPT !.byCategory.subAgentResponses = @ + 1,
                            !.tokensSaved = @ + 5000]
     ELSE afterCall

\* totalTokens is a number in every toolUseResult the statistics are taken of
updateSubAgentStats(entry, filterConfig, st) ==
  LET afterCall ==
        IF isSubAgentCall(entry) /\ filterConfig.subAgents.excludeCalls
        THEN [st EXCEPT !.byCategory.subAgentCalls = @ + 1,
                        !.tokensSaved = @ + 150]
        ELSE st
  IN IF isSubAgentResponse(entry) /\ filterConfig.subAgents.excludeResponses
     THEN LET result == entry.toolUseResult
          IN [afterCall EXCEPT
                !.byCategory.subAgentResponses = @ + 1,
                !.tokensSaved =
                   @ + (IF /\ Has(result, "obj")
                           /\ Has(result.obj, "totalTokens")
                           /\ Truthy(result.obj.totalTokens)
                        THEN result.obj.totalTokens.num
                        ELSE 5000)]
     ELSE afterCall

updateToolStats(entry, filterConfig, st) ==
  IF ~isToolCall(entry, UNDEFINED) THEN st
  ELSE LET toolName == getToolName(entry)
       IN IF toolName # NULL /\ shouldFilterTool(toolName, filterConfig)
          THEN [st EXCEPT !.byCategory.tools = @ + 1, !.tokensSaved = @ + 200]
          ELSE st

updateFailedToolStats(entry, filterConfig, st) ==
  IF isFailedToolResult(entry) /\ Flag(filterConfig.tools, "excludeFailed")
  THEN [st EXCEPT !.byCategory.failed = @ + 1, !.tokensSaved = @ + 50]
  ELSE st

\* the loop of getFilterStatistics from the i-th entry on
RECURSIVE StatsLoop(_, _, _, _)
StatsLoop(list, filterConfig, i, st) ==
  IF i > Len(list) THEN st
  ELSE StatsLoop(list, filterConfig, i + 1,
         updateFailedToolStats(list[i], filterConfig,
           updateToolStats(list[i], filterConfig,
             updateSubAgentStats(list[i], filterConfig,
               updateThinkingStats(list[i], filterConfig, st)))))

getFilterStatistics(list, filterConfig) ==
  LET out == filterConversation(list, filterConfig)
  IN StatsLoop(list, filterConfig, 1,
       [total |-> Len(list),
        filtered |-> Len(list) - Len(out),
        byCategory |-> [thinking |-> 0, subAgentCalls |-> 0,
                        subAgentResponses |-> 0, tools |-> 0, failed |-> 0],
        tokensSaved |-> 0])

(***************************************************************************)
(* Transcript lines and configurations of the statistics specification     *)
(* (SpecStats).                                                            *)
(***************************************************************************)
MaxStatsEntries == 2

StatsPool ==
  << UserMsg([str |-> "hi"]),
     AssistantMsg([str |-> "a<thinking>b</thinking>c"]),
     AssistantMsg([arr |-> <<Text("<thinking>x</thinking>"),
                             ToolUse("t3", "Task", [prompt |-> [str |-> "find"]])>>]),
     AssistantMsg([arr |-> <<ToolUse("t1", "Edit", [file_path |-> [str |-> "a.ts"]])>>]),
     UserMsg([arr |-> <<ToolResult("t1", [str |-> "done"])>>]),
     UserMsg([arr |-> <<FailedToolResult("t1", [str |-> "boom"])>>]),
     SubAgentResult([totalDurationMs |-> [num |-> 5000],
                     totalTokens |-> [num |-> 1000],
                     totalToolUseCount |-> [num |-> 3]]) >>

StatsConfig(thinking, calls, responses, exclusion, resultsOnly, failed) ==
  [content |-> [excludeThinking |-> thinking, excludeSystemReminders |-> FALSE,
                excludeErrors |-> FALSE],
   subAgents |-> [excludeCalls |-> calls, excludeResponses |-> responses],
   tools |-> ToolsAxis(exclusion, FALSE, resultsOnly, failed),
   messages |-> <<>>,
   advanced |-> [preserveContext |-> TRUE, compactMode |-> FALSE]]

AppendStatsEntry ==
  /\ Len(entries) < MaxStatsEntries
  /\ AppendEntry(StatsPool)

\* getFilterStatistics(entries, c); filtered is its local of that name
GetFilterStatistics ==
  \E thinking \in BOOLEAN, calls \in BOOLEAN, responses \in BOOLEAN,
     exclusion \in 1..2, resultsOnly \in BOOLEAN, failed \in BOOLEAN :
    LET c == StatsConfig(thinking, calls, responses, exclusion, resultsOnly,
                         failed)
    IN /\ pc = "build"
       /\ config' = c
       /\ filtered' = filterConversation(entries, c)
       /\ stats' = getFilterStatistics(entries, c)
       /\ pc' = "stats"
       /\ UNCHANGED <<entries, env, presetArg, refiltered, selected,
                      userMessageIndex, document, cache, fileSystem, lru, tree>>

NextStats == AppendStatsEntry \/ GetFilterStatistics

SpecStats == Init /\ [][NextStats]_vars

CATEGORIES == {"thinking", "subAgentCalls", "subAgentResponses", "tools", "failed"}

\* the counters the statistics walk increments for one event
CountedIn(entry) ==
  {c \in CATEGORIES :
     getFilterStatistics(<<entry>>, config).byCategory[c] > 0}

(***************************************************************************)
(* C18 - Statistics attribution: each event that filterConversation        *)
(* excludes is counted in exactly one of the counters byCategory.thinking, *)
(* subAgentCalls, subAgentResponses, tools, failed, and no event is        *)
(* counted in two of them.                                                 *)
(***************************************************************************)
C18_StatisticsAttribution ==
  pc = "stats" =>
    \A i \in 1..Len(entries) :
      /\ ~Present(entries[i].uuid, filtered) =>
           Cardinality(CountedIn(entries[i])) = 1
      /\ Cardinality(CountedIn(entries[i])) <= 1

RECURSIVE SumOfTokens(_, _)
SumOfTokens(list, i) ==
  IF i > Len(list) THEN 0
  ELSE (IF "subAgentResponses" \in CountedIn(list[i])
        THEN (IF Has(list[i].toolUseResult.obj, "totalTokens")
              THEN list[i].toolUseResult.obj.totalTokens.num
              ELSE 5000)
        ELSE 0) + SumOfTokens(list, i + 1)

(***************************************************************************)
(* C19 - getFilterStatistics returns total = number of input events,       *)
(* filtered = total minus the number of events filterConversation returns  *)
(* for the same input and configuration, and tokensSaved = 100 x thinking  *)
(* + 150 x subAgentCalls + 200 x tools + 50 x failed + the sum, over the   *)
(* counted sub-agent responses, of the reported totalTokens (5000 when     *)
(* none is reported).                                                      *)
(***************************************************************************)
C19_StatisticsArithmetic ==
  pc = "stats" =>
    /\ stats.total = Len(entries)
    /\ stats.filtered = stats.total - Len(filterConversation(entries, config))
    /\ stats.tokensSaved =
         100 * stats.byCategory.thinking + 150 * stats.byCategory.subAgentCalls
           + 200 * stats.byCategory.tools + 50 * stats.byCategory.failed
           + SumOfTokens(entries, 1)

C19_Witness ==
  /\ pc = "stats"
  /\ stats.total = 2
  /\ stats.filtered = 2
  /\ stats.byCategory.thinking = 1
  /\ stats.byCategory.subAgentCalls = 1
  /\ stats.byCategory.subAgentResponses = 1
  /\ stats.tokensSaved = 1250

(***************************************************************************)
(* Transcript lines and configurations of the content-shape specification  *)
(* (SpecShapes): content that is null, an object, or an array holding      *)
(* items that are not typed objects, and pattern lists with an invalid     *)
(* regular expression.                                                     *)
(***************************************************************************)
MaxShapeEntries == 2

ShapePool ==
  << UserMsg([str |-> "a(b"]),
     AssistantMsg([null |-> TRUE]),
     AssistantMsg([obj |-> [text |-> "abc"]]),
     AssistantMsg([arr |-> <<[str |-> "abc"]>>]),
     AssistantMsg([arr |-> <<[name |-> "abc"]>>]),
     AssistantMsg([arr |-> <<[null |-> TRUE]>>]),
     AssistantMsg([arr |-> <<ToolUse("t1", "Edit", [file_path |-> [str |-> "a.ts"]]),
                             [null |-> TRUE]>>]),
     UserMsg([arr |-> <<[null |-> TRUE]>>]) >>

\* the values of content.customPatterns in SpecShapes
ShapePatterns == << <<>>, <<"(", "b">>, <<"b", "[">> >>

ShapeConfig(patterns, exclusion, calls, failed, empty) ==
  [content |->
     IF patterns = 1
     THEN [excludeThinking |-> TRUE, excludeSystemReminders |-> TRUE,
           excludeErrors |-> FALSE]
     ELSE [excludeThinking |-> TRUE, excludeSystemReminders |-> TRUE,
           excludeErrors |-> FALSE, customPatterns |-> ShapePatterns[patterns]],
   subAgents |-> [excludeCalls |-> calls, excludeResponses |-> TRUE],
   tools |-> ToolsAxis(exclusion, FALSE, FALSE, failed),
   messages |-> [excludeEmpty |-> empty],
   advanced |-> [preserveContext |-> TRUE, compactMode |-> FALSE]]

AppendShapeEntry ==
  /\ Len(entries) < MaxShapeEntries
  /\ AppendEntry(ShapePool)

\* filterConversation(entries, c) returns a list
FilterShapes ==
  \E patterns \in 1..Len(ShapePatterns), exclusion \in 1..2,
     calls \in BOOLEAN, failed \in BOOLEAN, empty \in BOOLEAN :
    LET c == ShapeConfig(patterns, exclusion, calls, failed, empty)
    IN /\ ~filterConversationRaises(entries, c)
       /\ FilterWith(c)

\* filterConversation(entries, c) throws a TypeError
FilterShapesRaises ==
  \E patterns \in 1..Len(ShapePatterns), exclusion \in 1..2,
     calls \in BOOLEAN, failed \in BOOLEAN, empty \in BOOLEAN :
    LET c == ShapeConfig(patterns, exclusion, calls, failed, empty)
    IN /\ pc = "build"
       /\ filterConversationRaises(entries, c)
       /\ config' = c
       /\ pc' = "raised"
       /\ UNCHANGED <<entries, env, presetArg, filtered, refiltered, selected,
                      userMessageIndex, document, cache, fileSystem, stats,
               lru, tree>>

NextShapes == AppendShapeEntry \/ FilterShapes \/ FilterShapesRaises

SpecShapes == Init /\ [][NextShapes]_vars

\* the content has none of the shapes the rewriting knows: a string or an
\* array
UnrecognizedShape(content) == ~IsStr(content) /\ ~IsArr(content)

\* the patterns of the configuration that are valid regular expressions
ValidPatterns ==
  IF Has(config.content, "customPatterns")
  THEN SelectSeq(config.content.customPatterns, LAMBDA p : ~RegExpThrows(p))
  ELSE <<>>

(***************************************************************************)
(* C20 - filterConversation never raises: for every event list, with       *)
(* content of any shape (null, a non-array object, an array holding items  *)
(* that are not typed objects), and every configuration, customPatterns    *)
(* entries that are not valid regular expressions included, it returns a   *)
(* list; an unrecognized content shape is passed through unchanged and an  *)
(* invalid pattern is skipped while the other patterns are still applied.  *)
(***************************************************************************)
C20_NeverRaises ==
  /\ pc # "raised"
  /\ pc = "filtered" =>
       \A j \in 1..Len(filtered) :
         LET content == Origin(filtered[j]).message.content
         IN /\ UnrecognizedShape(content) =>
                 filtered[j].message.content = content
            /\ IsStr(content) =>
                 filtered[j].message.content =
                   [str |-> Trim(ApplyPatternsFrom(content.str, ValidPatterns, 1))]

\* a text item whose text is the empty string
EmptyText(item) == ItemType(item) = "text" /\ Has(item, "text") /\ item.text = ""

\* a tool-invocation or tool-result item
ToolItem(item) == ItemType(item) \in {"tool_use", "tool_result"}

(***************************************************************************)
(* C21 as stated - With messages.excludeEmpty set, a text item of array    *)
(* content whose text became empty after pattern stripping is removed from *)
(* the array (an output array holds a text item with empty text only if    *)
(* the input array held one), while tool-invocation and tool-result items  *)
(* are never removed for emptiness.                                        *)
(***************************************************************************)
C21_EmptyTextItemRemoved ==
  (Filtered /\ Flag(config.messages, "excludeEmpty")) =>
    \A j \in 1..Len(filtered) :
      IsArr(filtered[j].message.content) =>
        LET in == Origin(filtered[j]).message.content.arr
            out == filtered[j].message.content.arr
        IN /\ (\A k \in 1..Len(in) : ~EmptyText(in[k])) =>
                (\A k \in 1..Len(out) : ~EmptyText(out[k]))
           /\ Len(SelectSeq(out, ToolItem)) = Len(SelectSeq(in, ToolItem))

(***************************************************************************)
(* C21 as amended - With messages.excludeEmpty set, no item of array       *)
(* content is removed for emptiness: every item of a surviving event stays *)
(* at its position, a text item whose text became empty after pattern      *)
(* stripping as a text item with the empty string as text, and             *)
(* tool-invocation and tool-result items likewise.                         *)
(***************************************************************************)
C21_EmptyTextItemKept ==
  (Filtered /\ Flag(config.messages, "excludeEmpty")) =>
    \A j \in 1..Len(filtered) :
      IsArr(filtered[j].message.content) =>
        LET in == Origin(filtered[j]).message.content.arr
            out == filtered[j].message.content.arr
        IN /\ Len(out) = Len(in)
           /\ \A k \in 1..Len(in) :
                /\ ItemType(out[k]) = ItemType(in[k])
                /\ (ItemType(in[k]) = "text" /\ Has(in[k], "text")) =>
                     out[k].text = Trim(FirstCharsAndMarker(Stripped(in[k].text),
                                     IF MaxLengthSet THEN config.messages.maxLength
                                     ELSE Len(in[k].text)))

C21_Witness ==
  /\ pc = "filtered"
  /\ Flag(config.messages, "excludeEmpty")
  /\ Len(filtered) = 1
  /\ IsArr(filtered[1].message.content)
  /\ Len(filtered[1].message.content.arr) = 2
  /\ EmptyText(filtered[1].message.content.arr[1])
  /\ ~EmptyText(entries[1].message.content.arr[1])
  /\ ToolItem(filtered[1].message.content.arr[2])

(***************************************************************************)
(* C22 - Result pairing: a tool-result event is excluded on account of     *)
(* tool name/category exclusion (that is, excluded without being a failed  *)
(* result under excludeFailed) only if the event immediately preceding it  *)
(* in the input list is a tool-invocation event for an excluded tool whose *)
(* call identifier equals the result's; a result that directly follows a   *)
(* different call, or that does not directly follow its own call, is not   *)
(* excluded by this rule.                                                  *)
(***************************************************************************)
C22_ResultPairing ==
  Filtered =>
    \A i \in 1..Len(entries) :
      (/\ ToolResultItems(entries[i]) # {}
       /\ ~Present(entries[i].uuid, filtered)
       /\ ~(Flag(config.tools, "excludeFailed") /\ HoldsFailedResult(entries[i]))) =>
        /\ i > 1
        /\ \E k \in ToolUseItems(entries[i - 1]), r \in ToolResultItems(entries[i]) :
             /\ ToolExcluded(entries[i - 1].message.content.arr[k].name, config)
             /\ entries[i].message.content.arr[r].tool_use_id
                  = entries[i - 1].message.content.arr[k].id

\* the string holds the opening marker followed later by the closing marker
HoldsBlock(str, open, close) ==
  \E i \in 1..Len(str) :
    /\ StartsWithAt(str, open, i)
    /\ \E k \in (i + Len(open))..Len(str) : StartsWithAt(str, close, k)

HoldsReasoningBlock(str) ==
  \/ HoldsBlock(str, "<thinking>", "</thinking>")
  \/ HoldsBlock(str, "<anythingllm:thinking>", "</anythingllm:thinking>")

\* the string payloads of one content item: its text, the string-valued
\* fields of a tool invocation's input, a string tool-result output
ItemPayloads(item) ==
  (IF Has(item, "text") THEN {item.text} ELSE {})
    \cup (IF ItemType(item) = "tool_use" /\ Has(item, "input")
          THEN {item.input[f].str : f \in {g \in DOMAIN item.input :
                                             IsStr(item.input[g])}}
          ELSE {})
    \cup (IF ItemType(item) = "tool_result" /\ Has(item, "content")
             /\ IsStr(item.content)
          THEN {item.content.str}
          ELSE {})

\* the string payloads of an event
StringPayloads(entry) ==
  LET content == entry.message.content
  IN IF IsStr(content) THEN {content.str}
     ELSE IF IsArr(content)
     THEN UNION {ItemPayloads(content.arr[k]) : k \in 1..Len(content.arr)}
     ELSE {}

(***************************************************************************)
(* C23 - With content.excludeThinking set, no string payload of a          *)
(* surviving event (string content, a text item's text, a string-valued    *)
(* tool-invocation input field, a string tool-result output) contains a    *)
(* reasoning block, i.e. an opening marker <thinking> or                   *)
(* <anythingllm:thinking> followed later by the matching closing marker,   *)
(* also when the input holds nested or overlapping markers.                *)
(***************************************************************************)
C23_NoReasoningBlock ==
  (Filtered /\ config.content.excludeThinking) =>
    \A j \in 1..Len(filtered) :
      \A str \in StringPayloads(filtered[j]) : ~HoldsReasoningBlock(str)

(***************************************************************************)
(* Transcripts of the turn specification (SpecTurns): up to MaxTurnEntries *)
(* events, each of user or of assistant role.                              *)
(***************************************************************************)
MaxTurnEntries == 5

TurnPool == << UserMsg([str |-> "hi"]), AssistantMsg([str |-> "ok"]) >>

\* a line is appended to the transcript and parsed
AppendTurn ==
  /\ pc = "build"
  /\ Len(entries) < MaxTurnEntries
  /\ \E t \in 1..Len(TurnPool) :
       entries' = Append(entries, MkEntry(TurnPool[t], Len(entries) + 1))
  /\ UNCHANGED <<env, presetArg, config, filtered, refiltered, pc, selected,
                 userMessageIndex, document, cache, fileSystem, stats,
               lru, tree>>

NextTurns == AppendTurn \/ GetUpToUserMessage

SpecTurns == Init /\ [][NextTurns]_vars

\* getUpToUserMessage(entries, 2) was called on a list of 5 events of which
\* exactly the 2nd and the 5th are user-role events
SecondAndFifthAreUsers ==
  /\ pc = "upto"
  /\ userMessageIndex = 2
  /\ Len(entries) = 5
  /\ UserPositions(entries) = {2, 5}

(***************************************************************************)
(* C24 as stated - Given a list of 5 events of which exactly the 2nd and   *)
(* the 5th are user-role events, getUpToUserMessage(events, 2) returns     *)
(* only the 1st event.                                                     *)
(***************************************************************************)
C24_OnlyFirstEvent ==
  SecondAndFifthAreUsers => selected = <<entries[1]>>

(***************************************************************************)
(* C24 as amended - Given a list of 5 events of which exactly the 2nd and  *)
(* the 5th are user-role events, getUpToUserMessage(events, 2) returns the *)
(* first four events: everything strictly before the 2nd user event, which *)
(* is the 5th event of the list.                                           *)
(***************************************************************************)
C24_FirstFourEvents ==
  SecondAndFifthAreUsers => selected = SubSeq(entries, 1, 4)

C24_Witness ==
  /\ SecondAndFifthAreUsers
  /\ Len(selected) = 4
  /\ selected[2].type = "user"

(***************************************************************************)
(* conversation.ts: the conversation tree.  A node is known by the uuid of *)
(* its entry; the children arrays of the nodes are a function from uuids   *)
(* to sequences of uuids, the roots a sequence of uuids.                   *)
(***************************************************************************)
\* if (entry.parentUuid): null and the empty string count as no parent
HasParent(entry) == entry.parentUuid # NULL /\ entry.parentUuid # ""

\* nodeMap.get(uuid), for a uuid of the list: the node of the last entry
\* that carries it
NodeEntry(list, uuid) ==
  list[CHOOSE i \in 1..Len(list) :
         /\ list[i].uuid = uuid
         /\ \A j \in 1..Len(list) : list[j].uuid = uuid => j <= i]

NodeIds(list) == {list[i].uuid : i \in 1..Len(list)}

\* mutant: an entry that names itself as parent is pushed to the roots too
TreeRoots_SelfParentIsRoot(list) ==
  LET root == SelectSeq(list, LAMBDA entry :
                \/ ~HasParent(entry)
                \/ entry.parentUuid \notin NodeIds(list)
                \/ entry.parentUuid = entry.uuid)
  IN [i \in 1..Len(root) |-> root[i].uuid]

\* the second loop of buildConversationTree, for the roots
TreeRoots(list) ==
  LET root == SelectSeq(list, LAMBDA entry :
                \/ ~HasParent(entry)
                \/ entry.parentUuid \notin NodeIds(list))
  IN [i \in 1..Len(root) |-> root[i].uuid]

\* the second loop of buildConversationTree, for the children arrays
TreeChildren(list) ==
  [uuid \in NodeIds(list) |->
     LET child == SelectSeq(list, LAMBDA entry :
                    HasParent(entry) /\ entry.parentUuid = uuid)
     IN [i \in 1..Len(child) |-> child[i].uuid]]

buildConversationTree(list) ==
  [roots |-> TreeRoots(list), children |-> TreeChildren(list),
   stack |-> <<>>, result |-> <<>>]

(***************************************************************************)
(* The tree specification (SpecTree): entries with parent references that  *)
(* are null, dangling, to an earlier or later entry, or to the entry       *)
(* itself; the tree is built, then flattened or searched for its most      *)
(* recent branch one visit at a time.                                      *)
(***************************************************************************)
MaxTreeEntries == 3

\* a traversal is cut off after this many visits
MaxVisits == 2 * MaxTreeEntries + 2

ParentChoices == {NULL, "", "dangling"} \cup {UUIDS[i] : i \in 1..MaxTreeEntries}

AppendTreeEntry ==
  /\ pc = "build"
  /\ Len(entries) < MaxTreeEntries
  /\ \E parent \in ParentChoices :
       entries' = Append(entries,
                    [MkEntry(UserMsg([str |-> "hi"]), Len(entries) + 1)
                       EXCEPT !.parentUuid = parent])
  /\ UNCHANGED <<env, presetArg, config, filtered, refiltered, pc, selected,
                 userMessageIndex, document, cache, fileSystem, stats, lru,
                 tree>>

\* tree = buildConversationTree(entries)
BuildConversationTree ==
  /\ pc = "build"
  /\ tree' = buildConversationTree(entries)
  /\ pc' = "tree"
  /\ UNCHANGED <<entries, env, presetArg, config, filtered, refiltered,
                 selected, userMessageIndex, document, cache, fileSystem,
                 stats, lru>>

\* flattenConversationTree(roots) is called: the roots wait to be traversed
FlattenConversationTree ==
  /\ pc = "tree"
  /\ tree' = [tree EXCEPT !.stack = tree.roots, !.result = <<>>]
  /\ pc' = "flatten"
  /\ UNCHANGED <<entries, env, presetArg, config, filtered, refiltered,
                 selected, userMessageIndex, document, cache, fileSystem,
                 stats, lru>>

\* one call of traverse(node): the entry is pushed to the result and the
\* children are traversed before the nodes that still wait; the function
\* returns when no node waits
Traverse ==
  /\ pc = "flatten"
  /\ Len(tree.result) < MaxVisits
  /\ IF tree.stack = <<>>
     THEN pc' = "flattened" /\ tree' = tree
     ELSE LET node == Head(tree.stack)
          IN /\ tree' = [tree EXCEPT
                           !.result = Append(@, NodeEntry(entries, node)),
                           !.stack = tree.children[node] \o Tail(tree.stack)]
             /\ pc' = pc
  /\ UNCHANGED <<entries, env, presetArg, config, filtered, refiltered,
                 selected, userMessageIndex, document, cache, fileSystem,
                 stats, lru>>

\* getMostRecentBranch(roots) is called: the last root waits
GetMostRecentBranch ==
  /\ pc = "tree"
  /\ tree' = [tree EXCEPT
                !.stack = IF Len(tree.roots) = 0 THEN <<>>
                          ELSE <<tree.roots[Len(tree.roots)]>>,
                !.result = <<>>]
  /\ pc' = "branch"
  /\ UNCHANGED <<entries, env, presetArg, config, filtered, refiltered,
                 selected, userMessageIndex, document, cache, fileSystem,
                 stats, lru>>

\* one call of collectBranch(node): the entry is pushed to the branch and
\* the last child, if any, is collected next
CollectBranch ==
  /\ pc = "branch"
  /\ Len(tree.result) < MaxVisits
  /\ IF tree.stack = <<>>
     THEN pc' = "branched" /\ tree' = tree
     ELSE LET node == Head(tree.stack)
              children == tree.children[node]
          IN /\ tree' = [tree EXCEPT
                           !.result = Append(@, NodeEntry(entries, node)),
                           !.stack = IF Len(children) > 0
                                     THEN <<children[Len(children)]>>
                                     ELSE <<>>]
             /\ pc' = pc
  /\ UNCHANGED <<entries, env, presetArg, config, filtered, refiltered,
                 selected, userMessageIndex, document, cache, fileSystem,
                 stats, lru>>

NextTree ==
  \/ AppendTreeEntry
  \/ BuildConversationTree
  \/ FlattenConversationTree
  \/ Traverse
  \/ GetMostRecentBranch
  \/ CollectBranch

SpecTree == Init /\ [][NextTree]_vars

\* a call that was made runs on: the recursion of a traversal is not
\* suspended for ever
LiveSpecTree ==
  /\ Init /\ [][NextTree]_vars
  /\ WF_vars(Traverse) /\ WF_vars(CollectBranch)

\* entries[i] is an ancestor of entries[j] by n parent references or fewer
RECURSIVE AncestorWithin(_, _, _)
AncestorWithin(i, j, n) ==
  /\ n > 0
  /\ HasParent(entries[j])
  /\ \E k \in 1..Len(entries) :
       /\ entries[k].uuid = entries[j].parentUuid
       /\ (k = i \/ AncestorWithin(i, k, n - 1))

PositionIn(list, uuid) == CHOOSE k \in 1..Len(list) : list[k].uuid = uuid

(***************************************************************************)
(* C25 - Tree round trip: for every event list with unique ids,            *)
(* buildConversationTree roots exactly the events whose parentId is null   *)
(* or matches no id of the list, and                                       *)
(* flattenConversationTree(buildConversationTree(list)) contains every     *)
(* input event exactly once (without a children field), each parent before *)
(* its descendants.                                                        *)
(***************************************************************************)
C25_TreeRoundTrip ==
  pc = "flattened" =>
    /\ {tree.roots[k] : k \in 1..Len(tree.roots)}
         = {entries[i].uuid : i \in {j \in 1..Len(entries) :
                                       \/ entries[j].parentUuid = NULL
                                       \/ entries[j].parentUuid \notin NodeIds(entries)}}
    /\ Len(tree.result) = Len(entries)
    /\ \A i \in 1..Len(entries) :
         \E k \in 1..Len(tree.result) : tree.result[k] = entries[i]
    /\ \A i \in 1..Len(entries), j \in 1..Len(entries) :
         AncestorWithin(i, j, Len(entries)) =>
           PositionIn(tree.result, entries[i].uuid)
             < PositionIn(tree.result, entries[j].uuid)

\* some entry lies on a cycle of parent references
CyclicReferences ==
  \E i \in 1..Len(entries) : AncestorWithin(i, i, Len(entries))

(***************************************************************************)
(* C29 - Tree traversal terminates: for every event list with unique ids,  *)
(* lists whose parent references are self-references or form cycles        *)
(* included, flattenConversationTree and getMostRecentBranch, once called  *)
(* on the roots buildConversationTree returned, return: no node reachable  *)
(* from a root lies on a cycle.                                            *)
(***************************************************************************)
C29_TraversalTerminates ==
  (pc \in {"flatten", "branch"}) ~> (pc \in {"flattened", "branched"})

C29_Witness ==
  /\ pc \in {"flattened", "branched"}
  /\ CyclicReferences
  /\ Len(tree.result) > 0
  /\ Len(tree.result) < Len(entries)

(***************************************************************************)
(* cache.ts: ConversationCache over an LRUCache with max, ttl and          *)
(* updateAgeOnGet.  lru.now is the clock; lru.store is the LRUCache, least *)
(* recently used first, each item with the key, the CacheEntry (entries,   *)
(* timestamp) and the start of its age; lru.written records the set calls; *)
(* lru.got is what the last get returned and by which return statement.    *)
(***************************************************************************)
\* this.ttl, in ticks of the clock
TTL == 2

\* maxSize
MAX_SIZE == 1

IndexOfKey(store, key) ==
  IF \E i \in 1..Len(store) : store[i].key = key
  THEN CHOOSE i \in 1..Len(store) : store[i].key = key
  ELSE 0

Without(store, key) == SelectSeq(store, LAMBDA item : item.key # key)

\* LRUCache.set: the item becomes the most recently used one and the least
\* recently used one is evicted when max is exceeded
LruSet(store, key, value, now) ==
  LET put == Append(Without(store, key),
                    [key |-> key, value |-> value, start |-> now])
  IN IF Len(put) > MAX_SIZE THEN Tail(put) ELSE put

\* ConversationCache.set
CacheSetResult(state, key, list) ==
  [state EXCEPT
     !.store = LruSet(state.store, key,
                      [entries |-> list, timestamp |-> state.now], state.now),
     !.written = MapSet(state.written, key, [entries |-> list, at |-> state.now])]

\* mutant: the age of the entry is left to the LRUCache, whose age a get
\* refreshes
CacheGetResult_LruAgeOnly(state, key) ==
  LET i == IndexOfKey(state.store, key)
  IN IF i = 0
     THEN [state EXCEPT !.got = [key |-> key, branch |-> "miss", entries |-> <<>>]]
     ELSE IF state.now - state.store[i].start > TTL
     THEN [state EXCEPT !.store = Without(state.store, key),
                        !.got = [key |-> key, branch |-> "miss", entries |-> <<>>]]
     ELSE [state EXCEPT
             !.store = Append(Without(state.store, key),
                              [state.store[i] EXCEPT !.start = state.now]),
             !.got = [key |-> key, branch |-> "hit",
                      entries |-> state.store[i].value.entries]]

\* ConversationCache.get: this.cache.get(key) is undefined for a key that is
\* absent or whose age exceeds ttl, and refreshes the age otherwise; then
\* the age since entry.timestamp is tested
CacheGetResult(state, key) ==
  LET i == IndexOfKey(state.store, key)
  IN IF i = 0
     THEN [state EXCEPT !.got = [key |-> key, branch |-> "miss", entries |-> <<>>]]
     ELSE IF state.now - state.store[i].start > TTL
     THEN [state EXCEPT !.store = Without(state.store, key),
                        !.got = [key |-> key, branch |-> "miss", entries |-> <<>>]]
     ELSE IF state.now - state.store[i].value.timestamp > TTL
     THEN [state EXCEPT !.store = Without(state.store, key),
                        !.got = [key |-> key, branch |-> "expired",
                                 entries |-> <<>>]]
     ELSE [state EXCEPT
             !.store = Append(Without(state.store, key),
                              [state.store[i] EXCEPT !.start = state.now]),
             !.got = [key |-> key, branch |-> "hit",
                      entries |-> state.store[i].value.entries]]

(***************************************************************************)
(* The cache specification (SpecCache): time passes, lists are stored and  *)
(* read under two keys.                                                    *)
(***************************************************************************)
MaxCacheTime == 4

CacheKeys == {"a", "a:full"}

CacheLists ==
  { <<>>, <<MkEntry(UserMsg([str |-> "hi"]), 1)>> }

cacheVars == <<entries, env, presetArg, config, filtered, refiltered, pc,
               selected, userMessageIndex, document, cache, fileSystem, stats,
               tree>>

\* Date.now() advances
Tick ==
  /\ lru.now < MaxCacheTime
  /\ lru' = [lru EXCEPT !.now = @ + 1]
  /\ UNCHANGED cacheVars

CacheSet ==
  /\ \E key \in CacheKeys, list \in CacheLists :
       lru' = CacheSetResult(lru, key, list)
  /\ UNCHANGED cacheVars

CacheGet ==
  /\ \E key \in CacheKeys : lru' = CacheGetResult(lru, key)
  /\ UNCHANGED cacheVars

NextCache == Tick \/ CacheSet \/ CacheGet

SpecCache == Init /\ [][NextCache]_vars

\* the last get returned a list
GotList == lru.got.branch = "hit"

\* the last get returned null
GotNull == lru.got.branch \in {"miss", "expired"}

(***************************************************************************)
(* C26 - Cache time-to-live: ConversationCache.get(key) never returns a    *)
(* list that was stored more than ttl ago, also when the entry was read,   *)
(* and its LRU age refreshed, in between; once more than ttl has elapsed   *)
(* since set(key, ...), get(key) returns null.                             *)
(***************************************************************************)
C26_CacheTimeToLive ==
  [][\A key \in CacheKeys :
       lru' = CacheGetResult(lru, key) =>
         /\ lru'.got.branch = "hit" =>
              /\ key \in DOMAIN lru.written
              /\ lru'.got.entries = lru.written[key].entries
              /\ lru.now - lru.written[key].at <= TTL
         /\ (key \in DOMAIN lru.written
               /\ lru.now - lru.written[key].at > TTL) =>
              lru'.got.branch \in {"miss", "expired"}]_vars

\* a get found the entry fresh by its LRU age, which an earlier get had
\* refreshed, and returned null because of the time since it was stored
C26_Witness ==
  /\ lru.got.branch = "expired"
  /\ lru.got.key \in DOMAIN lru.written
  /\ lru.now - lru.written[lru.got.key].at > TTL

\* the document the tool that returned last builds from the transcript file
\* as it is now, no parse of it being cached
DocumentOfFile ==
  LET params == [filterPreset |-> presetArg, userMessageIndex |-> userMessageIndex]
      world == [World EXCEPT !.cache = <<>>]
  IN IF pc = "getCurrentConversation"
     THEN getCurrentConversation(params, world).result
     ELSE getCurrentConversationUpto(params, world).result

(***************************************************************************)
(* C27 - Freshness of the pipeline: every call of getConversationBase      *)
(* builds its result from the transcript file's content at the time of the *)
(* call: after events are appended to the file, the next call (for either  *)
(* tool) returns the document of the file with the appended events,        *)
(* whether or not an earlier call cached a parse of that file.             *)
(***************************************************************************)
C27_Freshness ==
  Returned => document = DocumentOfFile

BothOnlyFlags ==
  Flag(config.tools, "excludeCallsOnly") /\ Flag(config.tools, "excludeResultsOnly")

\* the sub-agent rule applies to the entry: it invokes Task and sub-agent
\* calls are excluded
SubAgentRule(entry) ==
  /\ config.subAgents.excludeCalls
  /\ \E k \in ToolUseItems(entry) : entry.message.content.arr[k].name = "Task"

\* the failed-result rule applies to the entry
FailedRule(entry) ==
  Flag(config.tools, "excludeFailed") /\ HoldsFailedResult(entry)

(***************************************************************************)
(* C30 - With both tools.excludeCallsOnly and tools.excludeResultsOnly     *)
(* set, tool exclusion by name or category removes neither the invocation  *)
(* event nor the result event of an excluded tool: every invocation event  *)
(* the sub-agent rule does not apply to and every result event the         *)
(* failed-result rule does not apply to is in filterConversation's output. *)
(***************************************************************************)
C30_BothFlagsDisableToolExclusion ==
  (Filtered /\ BothOnlyFlags) =>
    \A i \in 1..Len(entries) :
      /\ (ToolUseItems(entries[i]) # {} /\ ~SubAgentRule(entries[i]))
           => Present(entries[i].uuid, filtered)
      /\ (ToolResultItems(entries[i]) # {} /\ ~FailedRule(entries[i]))
           => Present(entries[i].uuid, filtered)

\* an excluded tool's call and the result answering it, both flags set, and
\* both events in the output
C30_Witness ==
  /\ pc = "filtered"
  /\ BothOnlyFlags
  /\ \E i \in 1..(Len(entries) - 1) :
       /\ ExcludedPair(i) /\ NoOtherRule(i)
       /\ Present(entries[i].uuid, filtered)
       /\ Present(entries[i + 1].uuid, filtered)

====
